---- MODULE Spec2Model ----
(***************************************************************************)
(* A state-machine model of the CoinDB vault (deps/CoinDB/src/Vault.cpp):  *)
(* the persisted store, the two in-memory unlock maps, the global mutex,   *)
(* and the public operations with their persistence transactions.          *)
(*                                                                         *)
(* Every public operation is one action.  Its body is the operator named   *)
(* after the corresponding *_unwrapped function; it works on the           *)
(* transaction's view of the store and returns that view together with    *)
(* the returned value and the raised error.  The action then commits the   *)
(* view exactly where the code calls t.commit() and drops it otherwise     *)
(* (odb rolls a transaction back when it is destroyed uncommitted).        *)
(***************************************************************************)
EXTENDS Integers, Sequences, FiniteSets, TLC

VARIABLES
    db,                   \* the committed persistent store (a record of tables)
    mapChainCodeUnlock,   \* keychain name -> cached chain code unlock key
    mapPrivateKeyUnlock,  \* keychain name -> cached private key unlock key
    mutex,                \* holder of the global mutex, or NoThread
    pc,                   \* per thread: position inside a public call
    call,                 \* per thread: the public call being executed
    tview,                \* per thread: the store as seen by its transaction
    hist                  \* calls in mutex-acquisition order with outcomes

vars == <<db, mapChainCodeUnlock, mapPrivateKeyUnlock, mutex, pc, call, tview, hist>>

storevars == <<db, mapChainCodeUnlock, mapPrivateKeyUnlock>>
threadvars == <<mutex, pc, call, tview, hist>>

-----------------------------------------------------------------------------
(* Bounds of the model *)

PoolSize == 1          \* largest unused_pool_size given to newAccount
MaxScriptIndex == 2    \* cap on next_script_index of a bin
MaxCalls == 3          \* number of calls recorded by the threaded model
MaxPoolSize == 2       \* largest unused_pool_size in the model of the script pools
MaxKeychains == 3      \* number of keychains stored in the model of the keychain store

-----------------------------------------------------------------------------
(* Sentinels and small helpers *)

None == "none"                  \* nullptr / no error / no value
NoThread == "nothread"

EmptyMap == [x \in {} |-> None]

\* erase that clears the whole map
MapErase_all(m, k) == [x \in {} |-> None]

\* std::map::erase(key)
MapErase(m, k) == [x \in (DOMAIN m) \ {k} |-> m[x]]

MapPut(m, k, v) == [x \in (DOMAIN m) \cup {k} |-> IF x = k THEN v ELSE m[x]]

Max(a, b) == IF a >= b THEN a ELSE b

\* F applied to the value of v: v is evaluated once, however often F uses it
Let(v, F(_)) == CHOOSE r \in {F(x) : x \in {v}} : TRUE

RECURSIVE SumSeq(_)
SumSeq(s) == IF s = << >> THEN 0 ELSE Head(s) + SumSeq(Tail(s))

RECURSIVE SetMax(_)
SetMax(S) == IF S = {} THEN 0
             ELSE LET x == CHOOSE y \in S : TRUE IN Max(x, SetMax(S \ {x}))

RECURSIVE SetMin(_)
SetMin(S) == LET x == CHOOSE y \in S : TRUE IN
             IF S = {x} THEN x
             ELSE LET m == SetMin(S \ {x}) IN IF x <= m THEN x ELSE m

\* the result of an *_unwrapped operation: the transaction's view of the
\* store, the chain code unlock map (runtime state, never rolled back), the
\* returned value and the exception that ended it
Res(d, cc, ret, err) == [db |-> d, cc |-> cc, ret |-> ret, err |-> err]

-----------------------------------------------------------------------------
(* Names fixed by the program *)

CHANGE_BIN_NAME == "@change"
DEFAULT_BIN_NAME == "@default"

TxStatusRank ==
    [UNSIGNED |-> 1, UNSENT |-> 2, SENT |-> 3, PROPAGATED |-> 4,
     CONFIRMED |-> 5, CONFLICTING |-> 6, NO_STATUS |-> 0]

-----------------------------------------------------------------------------
(* The empty vault *)

EmptyDb ==
    [keychains |-> {}, accounts |-> {}, bins |-> {}, scripts |-> {},
     txs |-> {}, headers |-> {}, mblocks |-> {}]

-----------------------------------------------------------------------------
(* Keychain store *)

KeychainNames == {"k1", "k2"}
Entropies == {"e1", "e2"}
GoodKey == "key"
BadKey == "wrong"
EmptyKey == ""

\* Keychain::hash(): the content hash of the extended public key, which the
\* seed entropy determines
KeychainHash(entropy) == <<"kc", entropy>>

\* Keychain::Keychain(name, entropy, lock_key, salt)
NewKeychainRow(name, entropy, lockKey) ==
    [hash |-> KeychainHash(entropy), name |-> name, private |-> TRUE,
     cckey |-> lockKey, pkkey |-> EmptyKey]

\* Keychain::unlockChainCode(key): decryption succeeds with the lock key only
unlockChainCode(kc, key) == key = kc.cckey

\* Keychain::unlockPrivateKey(key)
unlockPrivateKey(kc, key) == kc.private /\ key = kc.pkkey

keychainExists_unwrapped(d, name) == \E k \in d.keychains : k.name = name

KeychainsNamed(d, name) == {k \in d.keychains : k.name = name}

KeychainByHash(d, h) == CHOOSE k \in d.keychains : k.hash = h

\* Vault::newKeychain, the part inside the transaction
newKeychain_body(d, cc, name, entropy, lockKey) ==
    IF keychainExists_unwrapped(d, name)
    THEN Res(d, cc, None, "KeychainAlreadyExists")
    ELSE Res([d EXCEPT !.keychains = @ \cup {NewKeychainRow(name, entropy, lockKey)}],
             cc, name, None)

\* Vault::renameKeychain, the part inside the transaction
renameKeychain_body(d, cc, old, new) ==
    IF ~keychainExists_unwrapped(d, old) THEN Res(d, cc, None, "KeychainNotFound")
    ELSE IF old = new THEN Res(d, cc, None, None)
    ELSE IF keychainExists_unwrapped(d, new) THEN Res(d, cc, None, "KeychainAlreadyExists")
    ELSE LET k == CHOOSE x \in d.keychains : x.name = old IN
         Res([d EXCEPT !.keychains = (@ \ {k}) \cup {[k EXCEPT !.name = new]}],
             cc, new, None)

\* Vault::tryUnlockAccountChainCodes_unwrapped: the names of the account's
\* keychains that stay locked; a cached key that fails is erased from the map
LockedKeychains(d, cc, account) ==
    {k.name : k \in {x \in d.keychains :
                        /\ x.hash \in account.keychains
                        /\ \/ x.name \notin DOMAIN cc
                           \/ ~unlockChainCode(x, cc[x.name])}}

FailedUnlocks(d, cc, account) ==
    {k.name : k \in {x \in d.keychains :
                        /\ x.hash \in account.keychains
                        /\ x.name \in DOMAIN cc
                        /\ ~unlockChainCode(x, cc[x.name])}}

tryUnlockAccountChainCodes_unwrapped(d, cc, account) ==
    [cc |-> [n \in (DOMAIN cc) \ FailedUnlocks(d, cc, account) |-> cc[n]],
     locked |-> LockedKeychains(d, cc, account)]

\* the chain code counts as unlocked whether or not a key is cached
tryUnlockKeychainChainCode_unwrapped_open(cc, kc) == "true"

\* Vault::tryUnlockKeychainChainCode_unwrapped: "false" when no key is cached,
\* "throw" when the cached key does not decrypt
tryUnlockKeychainChainCode_unwrapped(cc, kc) ==
    IF kc.name \notin DOMAIN cc THEN "false"
    ELSE IF ~unlockChainCode(kc, cc[kc.name]) THEN "throw" ELSE "true"

\* Vault::tryUnlockKeychainPrivateKey_unwrapped
tryUnlockKeychainPrivateKey_unwrapped(pk, kc) ==
    IF kc.name \notin DOMAIN pk THEN "false"
    ELSE IF ~unlockPrivateKey(kc, pk[kc.name]) THEN "throw" ELSE "true"

-----------------------------------------------------------------------------
(* Accounts, bins and the signing script pool *)

AccountNames == {"A"}

\* Account::hash(): content hash of the keychain hashes and the m-of-n policy
AccountHash(kchashes, minsigs) == <<"acct", kchashes, minsigs>>

\* the output script of the signing script at an index of a bin: it is built
\* from the account's child keys at that bin and index
TxOutScript(accthash, binname, index) == <<accthash, binname, index>>

AccountByName(d, name) == CHOOSE a \in d.accounts : a.name = name

accountExists_unwrapped(d, name) == \E a \in d.accounts : a.name = name

BinRow(d, acct, bin) == CHOOSE b \in d.bins : b.account = acct /\ b.name = bin

BinExists(d, acct, bin) == \E b \in d.bins : b.account = acct /\ b.name = bin

\* the bin names that begin with '@'
ReservedBinNames == {CHANGE_BIN_NAME, DEFAULT_BIN_NAME}

\* AccountBin::isChange()
isChange(binname) == binname = CHANGE_BIN_NAME

\* ScriptCountView(bin, status): counted by the database over persisted rows
ScriptCount(d, acct, bin, status) ==
    Cardinality({s \in d.scripts : s.account = acct /\ s.bin = bin /\ s.status = status})

\* AccountBin::newSigningScript followed by db_->persist(script): a fresh
\* UNUSED script at next_script_index, which is then incremented
newSigningScript(d, acct, bin) ==
    LET b == BinRow(d, acct, bin)
        a == AccountByName(d, acct) IN
    [d EXCEPT
       !.scripts = @ \cup {[account |-> acct, bin |-> bin, index |-> b.next_script_index,
                            status |-> "UNUSED", label |-> "",
                            txoutscript |-> TxOutScript(a.hash, bin, b.next_script_index)]},
       !.bins = (@ \ {b}) \cup {[b EXCEPT !.next_script_index = @ + 1]}]

\* the scripts are persisted but the bin is never updated
RECURSIVE newSigningScripts_unsaved(_, _, _, _)
newSigningScripts_unsaved(d, acct, bin, n) ==
    IF n <= 0 THEN d
    ELSE Let(newSigningScript(d, acct, bin), LAMBDA d1 :
             [newSigningScripts_unsaved(d1, acct, bin, n - 1) EXCEPT !.bins = d.bins])

RECURSIVE newSigningScripts(_, _, _, _)
newSigningScripts(d, acct, bin, n) ==
    IF n <= 0 THEN d
    ELSE Let(newSigningScript(d, acct, bin), LAMBDA d1 : newSigningScripts(d1, acct, bin, n - 1))

\* a loop that starts one too far: for (i = count + 1; ...)
RefillCount_short(count, unused_pool_size) == Max(0, unused_pool_size - count - 1)

\* the number of scripts a refill creates: for (i = count; i < unused_pool_size; i++)
RefillCount(count, unused_pool_size) == Max(0, unused_pool_size - count)

\* a refill that derives new scripts without the chain codes
refillAccountBinPool_unwrapped_keyless(d, cc, acct, bin) ==
    Res(newSigningScripts(d, acct, bin,
            RefillCount(ScriptCount(d, acct, bin, "UNUSED"),
                        AccountByName(d, acct).unused_pool_size)),
        cc, None, None)

\* Vault::refillAccountBinPool_unwrapped
refillAccountBinPool_unwrapped(d, cc, acct, bin) ==
    Let(tryUnlockAccountChainCodes_unwrapped(d, cc, AccountByName(d, acct)), LAMBDA u :
        IF u.locked # {} THEN Res(d, u.cc, None, "AccountChainCodeLocked")
        ELSE Res(newSigningScripts(d, acct, bin,
                     RefillCount(ScriptCount(d, acct, bin, "UNUSED"),
                                 AccountByName(d, acct).unused_pool_size)),
                 u.cc, None, None))

\* the loop that fills the pools persists the scripts of the change bin only
newAccount_body_changeonly(d, cc, name, minsigs, keychain_names, unused_pool_size) ==
    IF accountExists_unwrapped(d, name) THEN Res(d, cc, None, "AccountAlreadyExists")
    ELSE IF \E n \in keychain_names : ~keychainExists_unwrapped(d, n)
    THEN Res(d, cc, None, "KeychainNotFound")
    ELSE
      LET khs == {k.hash : k \in {x \in d.keychains : x.name \in keychain_names}}
          a == [name |-> name, hash |-> AccountHash(khs, minsigs), minsigs |-> minsigs,
                keychains |-> khs, unused_pool_size |-> unused_pool_size] IN
      Let(tryUnlockAccountChainCodes_unwrapped(d, cc, a), LAMBDA u :
        IF u.locked # {} THEN Res(d, u.cc, None, "AccountChainCodeLocked")
        ELSE
          Let([d EXCEPT !.accounts = @ \cup {a},
                        !.bins = @ \cup {[account |-> name, name |-> CHANGE_BIN_NAME,
                                          next_script_index |-> 0, order |-> 1],
                                         [account |-> name, name |-> DEFAULT_BIN_NAME,
                                          next_script_index |-> 0, order |-> 2]}], LAMBDA d1 :
          Let(newSigningScripts(d1, name, CHANGE_BIN_NAME, unused_pool_size), LAMBDA d2 :
              Res(d2, u.cc, name, None))))

\* Vault::newAccount, the part inside the transaction
newAccount_body(d, cc, name, minsigs, keychain_names, unused_pool_size) ==
    IF accountExists_unwrapped(d, name) THEN Res(d, cc, None, "AccountAlreadyExists")
    ELSE IF \E n \in keychain_names : ~keychainExists_unwrapped(d, n)
    THEN Res(d, cc, None, "KeychainNotFound")
    ELSE
      LET khs == {k.hash : k \in {x \in d.keychains : x.name \in keychain_names}}
          a == [name |-> name, hash |-> AccountHash(khs, minsigs), minsigs |-> minsigs,
                keychains |-> khs, unused_pool_size |-> unused_pool_size] IN
      Let(tryUnlockAccountChainCodes_unwrapped(d, cc, a), LAMBDA u :
        IF u.locked # {} THEN Res(d, u.cc, None, "AccountChainCodeLocked")
        ELSE
          Let([d EXCEPT !.accounts = @ \cup {a},
                        !.bins = @ \cup {[account |-> name, name |-> CHANGE_BIN_NAME,
                                          next_script_index |-> 0, order |-> 1],
                                         [account |-> name, name |-> DEFAULT_BIN_NAME,
                                          next_script_index |-> 0, order |-> 2]}], LAMBDA d1 :
          Let(newSigningScripts(d1, name, CHANGE_BIN_NAME, unused_pool_size), LAMBDA d2 :
          Let(newSigningScripts(d2, name, DEFAULT_BIN_NAME, unused_pool_size), LAMBDA d3 :
              Res(d3, u.cc, name, None)))))

\* the smallest-index UNUSED script of a bin (ORDER BY index LIMIT 1)
UnusedScripts(d, acct, bin) ==
    {s \in d.scripts : s.account = acct /\ s.bin = bin /\ s.status = "UNUSED"}

\* the query ordered the other way round: the UNUSED script of largest index
FirstUnused_last(d, acct, bin) ==
    CHOOSE s \in UnusedScripts(d, acct, bin) :
        \A t \in UnusedScripts(d, acct, bin) : s.index >= t.index

FirstUnused(d, acct, bin) ==
    CHOOSE s \in UnusedScripts(d, acct, bin) :
        \A t \in UnusedScripts(d, acct, bin) : s.index <= t.index

\* issuance without the test for the change bin
issueAccountBinSigningScript_unwrapped_anybin(d, cc, acct, bin, label) ==
    Let(refillAccountBinPool_unwrapped(d, cc, acct, bin), LAMBDA r :
      IF UnusedScripts(r.db, acct, bin) = {}
      THEN Res(r.db, r.cc, None, "AccountBinOutOfScripts")
      ELSE Let(FirstUnused(r.db, acct, bin), LAMBDA s :
             Res([r.db EXCEPT !.scripts =
                     (@ \ {s}) \cup {[s EXCEPT !.status = "ISSUED", !.label = label]}],
                 r.cc, s.txoutscript, None)))

\* Vault::issueAccountBinSigningScript_unwrapped
issueAccountBinSigningScript_unwrapped(d, cc, acct, bin, label) ==
    IF isChange(bin) THEN Res(d, cc, None, "AccountCannotIssueChangeScript")
    ELSE
      Let(refillAccountBinPool_unwrapped(d, cc, acct, bin), LAMBDA r :
        IF UnusedScripts(r.db, acct, bin) = {}
        THEN Res(r.db, r.cc, None, "AccountBinOutOfScripts")
        ELSE Let(FirstUnused(r.db, acct, bin), LAMBDA s :
               Res([r.db EXCEPT !.scripts =
                       (@ \ {s}) \cup {[s EXCEPT !.status = "ISSUED", !.label = label]}],
                   r.cc, s.txoutscript, None)))

\* Vault::issueSigningScript, the part inside the transaction
issueSigningScript_body(d, cc, acct, bin, label) ==
    IF ~BinExists(d, acct, bin) THEN Res(d, cc, None, "AccountBinNotFound")
    ELSE issueAccountBinSigningScript_unwrapped(d, cc, acct, bin, label)

\* the names of the bins of an account in the order in which they were added
BinNames(d, acct) ==
    [i \in 1..Cardinality({b \in d.bins : b.account = acct}) |->
        (CHOOSE b \in d.bins : b.account = acct /\ b.order = i).name]

\* Vault::addAccountBin, the part inside the transaction
addAccountBin_body(d, cc, acct, bin) ==
    IF BinExists(d, acct, bin) THEN Res(d, cc, None, "AccountBinAlreadyExists")
    ELSE IF ~accountExists_unwrapped(d, acct) THEN Res(d, cc, None, "AccountNotFound")
    ELSE
      Let(tryUnlockAccountChainCodes_unwrapped(d, cc, AccountByName(d, acct)), LAMBDA u :
        IF u.locked # {} THEN Res(d, u.cc, None, "AccountChainCodeLocked")
        ELSE
          Let([d EXCEPT !.bins = @ \cup {[account |-> acct, name |-> bin,
                                          next_script_index |-> 0,
                                          order |-> Len(BinNames(d, acct)) + 1]}], LAMBDA d1 :
              Res(newSigningScripts(d1, acct, bin, AccountByName(d, acct).unused_pool_size),
                  u.cc, bin, None)))

\* Vault::refillAccountPool_unwrapped: every bin of the account in turn
RECURSIVE RefillBins(_, _, _)
RefillBins(r, acct, bins) ==
    IF bins = << >> \/ r.err # None THEN r
    ELSE Let(refillAccountBinPool_unwrapped(r.db, r.cc, acct, Head(bins)),
             LAMBDA r1 : RefillBins(r1, acct, Tail(bins)))

refillAccountPool_unwrapped(d, cc, acct) ==
    RefillBins(Res(d, cc, None, None), acct, BinNames(d, acct))

\* Vault::refillAccountPool, the part inside the transaction
refillAccountPool_body(d, cc, acct) ==
    IF ~accountExists_unwrapped(d, acct) THEN Res(d, cc, None, "AccountNotFound")
    ELSE refillAccountPool_unwrapped(d, cc, acct)

-----------------------------------------------------------------------------
(* Account import (Vault.cpp 240-345) *)

\* Keychain::clearPrivateKey()
clearPrivateKey(kc) == [kc EXCEPT !.private = FALSE, !.pkkey = EmptyKey]

\* Keychain::importPrivateKey(source)
importPrivateKey(kc, source) == [kc EXCEPT !.private = TRUE, !.pkkey = source.pkkey]

\* Keychain::setChainCodeLockKey(lock_key): the chain code is encrypted anew
setChainCodeLockKey(kc, key) == [kc EXCEPT !.cckey = key]

\* the account archives handed to importAccount: F1 holds a 2-of-2 account
\* whose two keychains are locked with different chain code keys, F2 a 1-of-1
\* account with one script of its default bin issued
AccountFiles ==
    [F1 |-> [name |-> "A", minsigs |-> 2, unused_pool_size |-> 1,
             keychains |-> {NewKeychainRow("k1", "e1", GoodKey),
                            NewKeychainRow("k2", "e2", BadKey)},
             bins |-> << [name |-> CHANGE_BIN_NAME, next_script_index |-> 0],
                         [name |-> DEFAULT_BIN_NAME, next_script_index |-> 0] >>],
     F2 |-> [name |-> "A", minsigs |-> 1, unused_pool_size |-> 1,
             keychains |-> {NewKeychainRow("k1", "e1", GoodKey)},
             bins |-> << [name |-> CHANGE_BIN_NAME, next_script_index |-> 0],
                         [name |-> DEFAULT_BIN_NAME, next_script_index |-> 1] >>]]

FileIds == DOMAIN AccountFiles

\* the name with 1, 2, ... appended until it is not taken
RECURSIVE AppendNum(_, _, _)
AppendNum(name, taken, append_num) ==
    IF (name \o ToString(append_num)) \notin taken THEN name \o ToString(append_num)
    ELSE AppendNum(name, taken, append_num + 1)

UniqueName(name, taken) == IF name \notin taken THEN name ELSE AppendNum(name, taken, 1)

\* the keychain is in the store already: its chain code lock key is replaced
\* and the private key taken over if it has none (287-301).  A stored chain
\* code that no cached key unlocked is either re-encrypted all the same or
\* refused by the keychain (rekeys_locked)
UpdateStoredKeychain(a, cc, stored, kc, chain_code_key, rekeys_locked) ==
    Let(tryUnlockKeychainChainCode_unwrapped(cc, stored), LAMBDA u :
      IF u = "throw" THEN [a EXCEPT !.err = "KeychainChainCodeUnlockFailed"]
      ELSE IF u = "false" /\ ~rekeys_locked THEN [a EXCEPT !.err = "ChainCodeLocked"]
      ELSE [a EXCEPT !.db.keychains =
                (@ \ {stored}) \cup
                {IF kc.private /\ ~stored.private
                 THEN importPrivateKey(setChainCodeLockKey(stored, chain_code_key), kc)
                 ELSE setChainCodeLockKey(stored, chain_code_key)}])

\* one round of the loop over the keychains of the archive (275-313)
ImportKeychain(a, cc, kc0, chain_code_key, countprivkeys, rekeys_locked) ==
    IF ~unlockChainCode(kc0, chain_code_key)
    THEN [a EXCEPT !.err = "KeychainChainCodeUnlockFailed"]
    ELSE
      Let(IF countprivkeys THEN kc0 ELSE clearPrivateKey(kc0), LAMBDA kc :
        IF \E k \in a.db.keychains : k.hash = kc.hash
        THEN UpdateStoredKeychain(a, cc, KeychainByHash(a.db, kc.hash), kc,
                                  chain_code_key, rekeys_locked)
        ELSE [a EXCEPT !.db.keychains =
                 @ \cup {[kc EXCEPT !.name = UniqueName(kc.name, {k.name : k \in a.db.keychains})]}])

RECURSIVE ImportKeychains(_, _, _, _, _, _, _)
ImportKeychains(a, cc, order, i, chain_code_key, countprivkeys, rekeys_locked) ==
    IF i > Len(order) \/ a.err # None THEN a
    ELSE Let(ImportKeychain(a, cc, order[i], chain_code_key, countprivkeys, rekeys_locked),
             LAMBDA a1 : ImportKeychains(a1, cc, order, i + 1, chain_code_key,
                                         countprivkeys, rekeys_locked))

\* the scripts of an imported bin up to its next_script_index get the status
\* of scripts that were handed out (323-332)
ImportedStatus(binname) == IF isChange(binname) THEN "CHANGE" ELSE "ISSUED"

\* one round of the loop over the bins of the archive (319-339): scripts
\* 0..next_script_index-1 are derived again, then the pool of unused ones
ImportBin(d, acct, bin, order, unused_pool_size) ==
    Let([d EXCEPT !.bins = @ \cup {[account |-> acct, name |-> bin.name,
                                    next_script_index |-> 0, order |-> order]}], LAMBDA d1 :
    Let(newSigningScripts(d1, acct, bin.name, bin.next_script_index), LAMBDA d2 :
    Let([d2 EXCEPT !.scripts = {IF s.account = acct /\ s.bin = bin.name
                                THEN [s EXCEPT !.status = ImportedStatus(bin.name)]
                                ELSE s : s \in @}], LAMBDA d3 :
      newSigningScripts(d3, acct, bin.name, unused_pool_size))))

RECURSIVE ImportBins(_, _, _, _, _)
ImportBins(d, acct, bins, i, unused_pool_size) ==
    IF i > Len(bins) THEN d
    ELSE Let(ImportBin(d, acct, bins[i], i, unused_pool_size),
             LAMBDA d1 : ImportBins(d1, acct, bins, i + 1, unused_pool_size))

\* the account row persisted for the archive (263-271, 315-316)
ImportedAccount(d, file) ==
    [name |-> UniqueName(file.name, {a.name : a \in d.accounts}),
     hash |-> AccountHash({k.hash : k \in file.keychains}, file.minsigs),
     minsigs |-> file.minsigs,
     keychains |-> {k.hash : k \in file.keychains},
     unused_pool_size |-> file.unused_pool_size]

\* Vault::importAccount_unwrapped; order is the order in which the set of the
\* archive's keychains is traversed, countprivkeys is privkeysimported != 0
importAccount_unwrapped(d, cc, file, order, chain_code_key, countprivkeys, rekeys_locked) ==
    IF \E a \in d.accounts : a.hash = AccountHash({k.hash : k \in file.keychains}, file.minsigs)
    THEN Res(d, cc, None, "AccountAlreadyExists")
    ELSE
      Let(ImportKeychains([db |-> d, err |-> None], cc, order, 1, chain_code_key,
                          countprivkeys, rekeys_locked), LAMBDA a :
        IF a.err # None THEN Res(a.db, cc, None, a.err)
        ELSE
          Let(ImportedAccount(d, file), LAMBDA account :
            Res(ImportBins([a.db EXCEPT !.accounts = @ \cup {account}], account.name,
                           file.bins, 1, file.unused_pool_size),
                cc, account.name, None)))

-----------------------------------------------------------------------------
(* Keychain archives (Vault.cpp 144-211) *)

\* oa << *keychain: the archive lists the name, the content hash, the key the
\* chain code is encrypted with and, for a private keychain, the key the
\* private key is encrypted with
Archive(kc) ==
    <<"keychain", kc.name, kc.hash, kc.cckey,
      IF kc.private THEN <<kc.pkkey>> ELSE << >> >>

\* ia >> *keychain
Unarchive(blob) ==
    [hash |-> blob[3], name |-> blob[2], private |-> blob[5] # << >>,
     cckey |-> blob[4], pkkey |-> IF blob[5] # << >> THEN blob[5][1] ELSE EmptyKey]

\* the private key is never cleared before the keychain is written
exportKeychain_body_private(d, cc, name, exportprivkeys) ==
    IF ~keychainExists_unwrapped(d, name) THEN Res(d, cc, None, "KeychainNotFound")
    ELSE Let(CHOOSE k \in d.keychains : k.name = name, LAMBDA keychain :
           IF exportprivkeys /\ ~keychain.private
           THEN Res(d, cc, None, "KeychainIsNotPrivate")
           ELSE Res(d, cc, Archive(keychain), None))

\* Vault::exportKeychain, the part inside the transaction: the keychain is
\* changed in memory only
exportKeychain_body(d, cc, name, exportprivkeys) ==
    IF ~keychainExists_unwrapped(d, name) THEN Res(d, cc, None, "KeychainNotFound")
    ELSE Let(CHOOSE k \in d.keychains : k.name = name, LAMBDA keychain :
           IF exportprivkeys /\ ~keychain.private
           THEN Res(d, cc, None, "KeychainIsNotPrivate")
           ELSE Res(d, cc, Archive(IF exportprivkeys THEN keychain
                                   ELSE clearPrivateKey(keychain)), None))

\* the private keys of the archive replace nothing that is stored
StoredKeychain_kept(stored_keychain, keychain) == stored_keychain

\* the stored keychain after a keychain with its hash was imported (188-195)
StoredKeychain(stored_keychain, keychain) == importPrivateKey(stored_keychain, keychain)

\* the archive's keychain is persisted under its own name whatever is stored
ImportedName_taken(d, keychain_name) == keychain_name

\* the name the imported keychain is persisted under (200-207)
ImportedName(d, keychain_name) ==
    UniqueName(keychain_name, {k.name : k \in d.keychains})

\* Vault::importKeychain_unwrapped; the returned value is the keychain
importKeychain_unwrapped(d, cc, blob, importprivkeys0) ==
    Let(Unarchive(blob), LAMBDA keychain0 :
    Let(importprivkeys0 /\ keychain0.private, LAMBDA importprivkeys :
    Let(IF importprivkeys THEN keychain0 ELSE clearPrivateKey(keychain0), LAMBDA keychain :
      IF \E k \in d.keychains : k.hash = keychain.hash
      THEN Let(KeychainByHash(d, keychain.hash), LAMBDA stored_keychain :
             IF keychain.private /\ ~stored_keychain.private
             THEN Let(StoredKeychain(stored_keychain, keychain), LAMBDA k :
                    Res([d EXCEPT !.keychains = (@ \ {stored_keychain}) \cup {k}],
                        cc, k, None))
             ELSE Res(d, cc, None, "KeychainAlreadyExists"))
      ELSE Let([keychain EXCEPT !.name = ImportedName(d, keychain.name)], LAMBDA k :
             Res([d EXCEPT !.keychains = @ \cup {k}], cc, k, None)))))

-----------------------------------------------------------------------------
(* Transactions: the transactions that reach the vault *)

\* the account of the scenarios: 2-of-2 over the keychains seeded by e1 and e2
SignersA == {KeychainHash("e1"), KeychainHash("e2")}
AccountA == [name |-> "A", minsigs |-> Cardinality(SignersA), keychain_names |-> KeychainNames]
HashA == AccountHash(SignersA, AccountA.minsigs)

\* a script of a wallet that is not in the vault
ForeignScript(n) == TxOutScript(AccountHash({}, 0), "ext", n)
NoScript == TxOutScript(AccountHash({}, 0), None, 0)

DefaultScript(i) == TxOutScript(HashA, DEFAULT_BIN_NAME, i)
ChangeScript(i) == TxOutScript(HashA, CHANGE_BIN_NAME, i)

\* an input: the outpoint (transaction, 0-based index), the number of
\* signatures its script requires, the keychains whose keys may sign it and
\* the signing script it spends
ForeignIn(outuid, outindex) ==
    [outuid |-> outuid, outindex |-> outindex, need |-> 0, signers |-> {}, script |-> NoScript]
VaultIn(outuid, outindex, script) ==
    [outuid |-> outuid, outindex |-> outindex, need |-> AccountA.minsigs,
     signers |-> SignersA, script |-> script]
Out(script, value) == [script |-> script, value |-> value]

\* a second account in the same vault: 1-of-1 over the keychain seeded by e1
AccountB == [name |-> "B", minsigs |-> 1, keychain_names |-> {"k1"}]
HashB == AccountHash({KeychainHash("e1")}, AccountB.minsigs)
ScriptB(i) == TxOutScript(HashB, DEFAULT_BIN_NAME, i)
InB(outuid, outindex, script) ==
    [outuid |-> outuid, outindex |-> outindex, need |-> AccountB.minsigs,
     signers |-> {KeychainHash("e1")}, script |-> script]

\* the transactions, named by their unsigned hash: T0 pays account A, T1 to
\* T5 spend its outputs, T6 does not concern the vault, T7 pays account B and
\* T8 spends that payment into the change bin of account A
TxCat ==
    [T0 |-> [ins |-> << ForeignIn("X", 0) >>,
             outs |-> << Out(DefaultScript(0), 3), Out(ForeignScript(1), 1) >>, timestamp |-> 5],
     T1 |-> [ins |-> << VaultIn("T0", 0, DefaultScript(0)) >>,
             outs |-> << Out(ForeignScript(2), 1), Out(ChangeScript(0), 2) >>, timestamp |-> 6],
     T2 |-> [ins |-> << VaultIn("T0", 0, DefaultScript(0)) >>,
             outs |-> << Out(ForeignScript(3), 3) >>, timestamp |-> 6],
     T3 |-> [ins |-> << VaultIn("T1", 1, ChangeScript(0)) >>,
             outs |-> << Out(DefaultScript(1), 2) >>, timestamp |-> 7],
     T4 |-> [ins |-> << ForeignIn("T0", 1) >>,
             outs |-> << Out(DefaultScript(1), 2) >>, timestamp |-> 7],
     T5 |-> [ins |-> << VaultIn("T0", 0, DefaultScript(0)), ForeignIn("T0", 2) >>,
             outs |-> << Out(ForeignScript(5), 1) >>, timestamp |-> 7],
     T6 |-> [ins |-> << ForeignIn("X", 2) >>,
             outs |-> << Out(ForeignScript(4), 1) >>, timestamp |-> 7],
     T7 |-> [ins |-> << ForeignIn("X", 3) >>,
             outs |-> << Out(ScriptB(0), 2) >>, timestamp |-> 5],
     T8 |-> [ins |-> << InB("T7", 0, ScriptB(0)) >>,
             outs |-> << Out(ChangeScript(0), 2) >>, timestamp |-> 6]]

TxIds == DOMAIN TxCat

Ins(uid) == TxCat[uid].ins
Outs(uid) == TxCat[uid].outs

\* Tx::hash(): the hash of the serialized transaction, input scripts (and so
\* the signatures they carry) included
TxHash(uid, sigs) == <<uid, sigs>>

\* Tx::unsigned_hash(): the same hash with every input script replaced by a
\* placeholder, so that the signatures drop out
UnsignedHash(uid, sigs) == TxHash(uid, [i \in DOMAIN sigs |-> {}])[1]

\* the signatures of the fully signed form that spenders refer to
FullSigs(uid) == [i \in 1..Len(Ins(uid)) |-> Ins(uid)[i].signers]
NoSigs(uid) == [i \in 1..Len(Ins(uid)) |-> {}]

\* TxIn::outhash()
OutHash(in) == IF in.outuid \in TxIds THEN TxHash(in.outuid, FullSigs(in.outuid))
               ELSE TxHash(in.outuid, << >>)

NoTxIn == [tx |-> None, idx |-> 0]
TxInId(uid, i) == [tx |-> uid, idx |-> i]

RowHash(r) == TxHash(r.uid, r.sigs)

\* Tx::missingSigCount()
missingSigCount(uid, sigs) ==
    SumSeq([i \in 1..Len(Ins(uid)) |-> Max(0, Ins(uid)[i].need - Cardinality(sigs[i]))])

\* Tx::updateStatus(status): UNSIGNED while a signature is missing, otherwise
\* the given status, otherwise UNSENT or the status the transaction has
updateStatus(uid, sigs, cur, given) ==
    IF missingSigCount(uid, sigs) > 0 THEN "UNSIGNED"
    ELSE IF given # "NO_STATUS" THEN given
    ELSE IF cur \in {"NO_STATUS", "UNSIGNED"} THEN "UNSENT"
    ELSE cur

TxRows(d, uhash) == {r \in d.txs : UnsignedHash(r.uid, r.sigs) = uhash}

ReplaceTx(d, old, new) == [d EXCEPT !.txs = (@ \ {old}) \cup {new}]

\* Script::mergesigs: the signatures of the other script that this one lacks
\* are added; returns the number added
mergesigs(stored, incoming) == stored \cup incoming
sigsadded(stored, incoming) == Cardinality(incoming \ stored)

-----------------------------------------------------------------------------
(* insertTx: reconciliation with a stored duplicate (Vault.cpp 950-1024) *)

\* the duplicate check left out: every incoming transaction is taken as new
DuplicatesOf_unchecked(d, tx) == {}

\* the stored transaction with the same unsigned hash, if any
DuplicatesOf(d, tx) == TxRows(d, UnsignedHash(tx.uid, tx.sigs))

\* stored is UNSIGNED, the incoming one is signed: take over its input scripts
ReplaceWithSigned(d, cc, stored, tx) ==
    LET new == [stored EXCEPT !.sigs = tx.sigs,
                              !.status = updateStatus(stored.uid, tx.sigs, stored.status, tx.status)] IN
    Res(ReplaceTx(d, stored, new), cc, stored.uid, None)

\* the incoming input scripts are written over the stored ones
MergeSignatures_overwritten(d, cc, stored, tx) ==
    LET updated == \E i \in DOMAIN stored.sigs : sigsadded(stored.sigs[i], tx.sigs[i]) > 0 IN
    IF updated THEN Res(ReplaceTx(d, stored, [stored EXCEPT !.sigs = tx.sigs]), cc, stored.uid, None)
    ELSE Res(d, cc, None, None)

\* both are UNSIGNED: merge the signatures input by input; the stored
\* transaction itself is neither re-evaluated nor updated
MergeSignatures(d, cc, stored, tx) ==
    LET merged == [i \in DOMAIN stored.sigs |-> mergesigs(stored.sigs[i], tx.sigs[i])]
        updated == \E i \in DOMAIN stored.sigs : sigsadded(stored.sigs[i], tx.sigs[i]) > 0 IN
    IF updated THEN Res(ReplaceTx(d, stored, [stored EXCEPT !.sigs = merged]), cc, stored.uid, None)
    ELSE Res(d, cc, None, None)

\* the incoming status is taken over whenever it differs from the stored one
PromoteStatus_any(d, cc, stored, tx) ==
    IF tx.status # "UNSIGNED"
    THEN IF tx.status # stored.status
         THEN Res(ReplaceTx(d, stored,
                     [stored EXCEPT !.status = updateStatus(stored.uid, stored.sigs, stored.status, tx.status)]),
                  cc, stored.uid, None)
         ELSE Res(d, cc, None, None)
    ELSE Res(d, cc, None, None)

\* stored is signed: only a strictly higher incoming status is taken over
PromoteStatus(d, cc, stored, tx) ==
    IF tx.status # "UNSIGNED"
    THEN IF TxStatusRank[tx.status] > TxStatusRank[stored.status]
         THEN Res(ReplaceTx(d, stored,
                     [stored EXCEPT !.status = updateStatus(stored.uid, stored.sigs, stored.status, tx.status)]),
                  cc, stored.uid, None)
         ELSE Res(d, cc, None, None)
    ELSE Res(d, cc, None, None)

ReconcileDuplicate(d, cc, stored, tx) ==
    IF stored.status = "UNSIGNED"
    THEN IF tx.status # "UNSIGNED" THEN ReplaceWithSigned(d, cc, stored, tx)
         ELSE MergeSignatures(d, cc, stored, tx)
    ELSE PromoteStatus(d, cc, stored, tx)

-----------------------------------------------------------------------------
(* insertTx: a transaction not seen before (Vault.cpp 1026-1185) *)

ScriptRows(d, script) == {s \in d.scripts : s.txoutscript = script}

\* the double-spend check left out: the spent link is never looked at
ConflictTxIn_unchecked(parent, k) == NoTxIn

\* the outpoint's spent link as found when the input is checked
ConflictTxIn(parent, k) == parent.spent[k]

\* whether the spent link of an outpoint is set for this input: only when the
\* outpoint pays a signing script of the vault
SpendsFromVault(d, script) == ScriptRows(d, script) # {}

\* one round of the loop over the inputs (1037-1081)
ScanInput(a, tx, i) ==
    LET in == Ins(tx.uid)[i]
        k == in.outindex + 1
        parents == {r \in a.db.txs : RowHash(r) = OutHash(in)} IN
    IF parents = {} THEN [a EXCEPT !.have_all_outpoints = FALSE]
    ELSE
      Let(CHOOSE r \in parents : TRUE, LAMBDA p :
        IF Len(Outs(p.uid)) <= in.outindex THEN [a EXCEPT !.err = "OutpointOutOfRange"]
        ELSE
          Let([a EXCEPT !.conflicting_txs =
                            IF ConflictTxIn(p, k) # NoTxIn THEN @ \cup {ConflictTxIn(p, k).tx} ELSE @,
                        !.input_total = @ + Outs(p.uid)[k].value], LAMBDA a1 :
            IF SpendsFromVault(a.db, Outs(p.uid)[k].script)
            THEN [a1 EXCEPT !.sent_from_vault = TRUE,
                            !.db = ReplaceTx(@, p, [p EXCEPT !.spent[k] = TxInId(tx.uid, i - 1)]),
                            !.sending_account =
                                IF @ = None
                                THEN (CHOOSE s \in ScriptRows(a.db, Outs(p.uid)[k].script) : TRUE).account
                                ELSE @]
            ELSE a1))

RECURSIVE ScanInputs(_, _, _)
ScanInputs(a, tx, i) ==
    IF i > Len(Ins(tx.uid)) \/ a.err # None THEN a
    ELSE Let(ScanInput(a, tx, i), LAMBDA a1 : ScanInputs(a1, tx, i + 1))

\* the switch on the script's status left out: every paid script is marked
PaidScriptStatus_unconditional(status, sent_from_vault, binname) ==
    IF sent_from_vault /\ isChange(binname) THEN "CHANGE" ELSE "USED"

\* the status an UNUSED or ISSUED script gets when an output pays it (1103-1133)
PaidScriptStatus(status, sent_from_vault, binname) ==
    CASE status = "UNUSED" -> IF sent_from_vault /\ isChange(binname) THEN "CHANGE" ELSE "USED"
      [] status = "ISSUED" -> "USED"
      [] OTHER -> status

\* the refill attempted when an UNUSED script is paid: it runs before the
\* script's new status is written (db_->update(script) comes at 1175), so the
\* count it queries still includes that script; a locked chain code is absorbed
RefillOnPayment(d, cc, acct, bin) ==
    Let(refillAccountBinPool_unwrapped(d, cc, acct, bin), LAMBDA r :
        IF r.err = "AccountChainCodeLocked" THEN [db |-> d, cc |-> r.cc]
        ELSE [db |-> r.db, cc |-> r.cc])

\* the query for stored inputs left out: an output is stored unspent
StoredSpenders_unqueried(d, hash, outindex) == {}

\* the persisted inputs that refer to an output of the incoming transaction
\* (transactions inserted out of order, 1135-1141)
StoredSpenders(d, hash, outindex) ==
    {t \in UNION {{TxInId(r.uid, i - 1) : i \in 1..Len(Ins(r.uid))} : r \in d.txs} :
        /\ OutHash(Ins(t.tx)[t.idx + 1]) = hash
        /\ Ins(t.tx)[t.idx + 1].outindex = outindex}

\* one round of the loop over the outputs (1091-1149)
ScanOutput(a, tx, j) ==
    LET out == Outs(tx.uid)[j]
        rows == ScriptRows(a.db, out.script) IN
    IF rows # {}
    THEN
      Let(CHOOSE x \in rows : TRUE, LAMBDA s :
      Let(IF out.script \in DOMAIN a.scripts THEN a.scripts[out.script] ELSE s.status, LAMBDA status :
      Let(IF status = "UNUSED" THEN RefillOnPayment(a.db, a.cc, s.account, s.bin)
          ELSE [db |-> a.db, cc |-> a.cc], LAMBDA rf :
      Let(StoredSpenders(a.db, TxHash(tx.uid, tx.sigs), j - 1), LAMBDA spenders :
        [a EXCEPT !.output_total = @ + out.value,
                  !.sent_to_vault = TRUE,
                  !.signingscript[j] = out.script,
                  !.scripts = IF PaidScriptStatus(status, a.sent_from_vault, s.bin) # status
                              THEN MapPut(@, out.script,
                                          PaidScriptStatus(status, a.sent_from_vault, s.bin))
                              ELSE @,
                  !.db = rf.db,
                  !.cc = rf.cc,
                  !.spent[j] = IF spenders # {} THEN CHOOSE t \in spenders : TRUE ELSE @]))))
    ELSE IF a.sending_account # None
    THEN [a EXCEPT !.output_total = @ + out.value,
                   !.txout_sending_account[j] = a.sending_account]
    ELSE [a EXCEPT !.output_total = @ + out.value]

RECURSIVE ScanOutputs(_, _, _)
ScanOutputs(a, tx, j) ==
    IF j > Len(Outs(tx.uid)) THEN a
    ELSE Let(ScanOutput(a, tx, j), LAMBDA a1 : ScanOutputs(a1, tx, j + 1))

\* the stored transactions found to double-spend are marked (1151-1162)
MarkConflicting(d, conflicting_txs) ==
    [d EXCEPT !.txs =
        {IF r.uid \in conflicting_txs /\ r.status # "CONFIRMED"
         THEN [r EXCEPT !.status = updateStatus(r.uid, r.sigs, r.status, "CONFLICTING")]
         ELSE r : r \in @}]

\* db_->update(script) for the scripts whose status was changed (1175)
UpdateScripts(d, scripts) ==
    [d EXCEPT !.scripts =
        {IF s.txoutscript \in DOMAIN scripts THEN [s EXCEPT !.status = scripts[s.txoutscript]]
         ELSE s : s \in @}]

\* uint64_t arithmetic, scaled to a small width
Uint64Mod == 16

\* tx->fee(input_total - output_total)
Fee(input_total, output_total) == (input_total - output_total) % Uint64Mod

\* ConfirmedTxView: the stored headers whose merkle block lists the hash
ConfirmingHeaders(d, hash) ==
    {m.header : m \in {x \in d.mblocks : hash \in x.hashes /\ \E h \in d.headers : h.hash = x.header}}

\* Vault::updateConfirmations_unwrapped(tx); scope None means every transaction
updateConfirmations_unwrapped(d, scope) ==
    [d EXCEPT !.txs =
        {IF /\ r.blockheader = None
            /\ (scope = None \/ RowHash(r) = scope)
            /\ ConfirmingHeaders(d, RowHash(r)) # {}
         THEN [r EXCEPT !.blockheader = CHOOSE h \in ConfirmingHeaders(d, RowHash(r)) : TRUE]
         ELSE r : r \in @}]

\* every incoming transaction is stored
Relevant_always(sent_from_vault, sent_to_vault) == TRUE

\* whether the incoming transaction is stored at all (1164)
Relevant(sent_from_vault, sent_to_vault) == sent_from_vault \/ sent_to_vault

\* the state of the two loops before the first input
NewScan(d, cc, tx) ==
    [db |-> d, cc |-> cc, err |-> None,
     conflicting_txs |-> {}, sent_from_vault |-> FALSE, sent_to_vault |-> FALSE,
     have_all_outpoints |-> TRUE, input_total |-> 0, output_total |-> 0,
     sending_account |-> None, scripts |-> EmptyMap,
     spent |-> [j \in 1..Len(Outs(tx.uid)) |-> NoTxIn],
     signingscript |-> [j \in 1..Len(Outs(tx.uid)) |-> NoScript],
     txout_sending_account |-> [j \in 1..Len(Outs(tx.uid)) |-> None]]

\* the status the incoming transaction is stored with (1151-1153)
NewTxStatus(a, tx) ==
    IF a.conflicting_txs # {} THEN updateStatus(tx.uid, tx.sigs, tx.status, "CONFLICTING")
    ELSE tx.status

\* the row persisted for the incoming transaction (1166-1172)
NewTxRow(a, tx) ==
    [uid |-> tx.uid, status |-> NewTxStatus(a, tx), sigs |-> tx.sigs,
     spent |-> a.spent, signingscript |-> a.signingscript,
     sending_account |-> a.txout_sending_account,
     fee |-> IF a.have_all_outpoints THEN Fee(a.input_total, a.output_total) ELSE 0,
     blockheader |-> None]

\* conflict marking and persistence after the two loops (1151-1184)
PersistNew(a, tx) ==
    Let(MarkConflicting(a.db, a.conflicting_txs), LAMBDA d1 :
      IF ~Relevant(a.sent_from_vault, a.sent_to_vault) THEN Res(d1, a.cc, None, None)
      ELSE
        Let(NewTxRow(a, tx), LAMBDA row :
        Let(UpdateScripts([d1 EXCEPT !.txs = @ \cup {row}], a.scripts), LAMBDA d2 :
          Res(IF TxStatusRank[row.status] >= TxStatusRank["SENT"]
              THEN updateConfirmations_unwrapped(d2, RowHash(row)) ELSE d2,
              a.cc, tx.uid, None))))

InsertNew(d, cc, tx) ==
    Let(ScanInputs(NewScan(d, cc, tx), tx, 1), LAMBDA a1 :
      IF a1.err # None THEN Res(a1.db, a1.cc, None, a1.err)
      ELSE Let(ScanOutputs(a1, tx, 1), LAMBDA a2 : PersistNew(a2, tx)))

\* Vault::insertTx_unwrapped; tx0 carries the caller's status
insertTx_unwrapped(d, cc, tx0) ==
    Let([tx0 EXCEPT !.status = updateStatus(tx0.uid, tx0.sigs, tx0.status, "NO_STATUS")], LAMBDA tx :
    Let(DuplicatesOf(d, tx), LAMBDA dups :
      IF dups # {}
      THEN Let(CHOOSE r \in dups : TRUE, LAMBDA stored : ReconcileDuplicate(d, cc, stored, tx))
      ELSE InsertNew(d, cc, tx)))

-----------------------------------------------------------------------------
(* deleteTx (Vault.cpp 1276-1304) *)

\* the stored outputs whose spent link is the given input
\* (query<TxOut>::spent == txin->id())
SpentBy(d, txin) ==
    UNION {{<<r.uid, k>> : k \in {x \in 1..Len(Outs(r.uid)) : r.spent[x] = txin}} : r \in d.txs}

\* unspend the outpoint of one input
UnspendOutpoint(d, txin) ==
    IF SpentBy(d, txin) = {} THEN d
    ELSE Let(CHOOSE x \in SpentBy(d, txin) : TRUE, LAMBDA o :
           [d EXCEPT !.txs = {IF r.uid = o[1] THEN [r EXCEPT !.spent[o[2]] = NoTxIn] ELSE r : r \in @}])

RECURSIVE UnspendOutpoints(_, _, _)
UnspendOutpoints(d, uid, i) ==
    IF i > Len(Ins(uid)) THEN d
    ELSE Let(UnspendOutpoint(d, TxInId(uid, i - 1)), LAMBDA d1 : UnspendOutpoints(d1, uid, i + 1))

\* the transaction to delete first for an output: the one whose input is the
\* output's spent link
DependentOf(row, j) == row.spent[j]

RECURSIVE deleteTx_unwrapped(_, _)
RECURSIVE DeleteDependents(_, _, _)

\* the loop over the outputs: the spender of a spent output is deleted first
DeleteDependents(d, uid, j) ==
    IF j > Len(Outs(uid)) THEN d
    ELSE Let(DependentOf(CHOOSE r \in d.txs : r.uid = uid, j), LAMBDA dep :
         Let(IF dep # NoTxIn THEN deleteTx_unwrapped(d, dep.tx) ELSE d, LAMBDA d1 :
           DeleteDependents(d1, uid, j + 1)))

deleteTx_unwrapped(d, uid) ==
    Let(UnspendOutpoints(d, uid, 1), LAMBDA d1 :
    Let(DeleteDependents(d1, uid, 1), LAMBDA d2 :
      [d2 EXCEPT !.txs = {r \in @ : r.uid # uid}]))

\* Vault::deleteTx, the part inside the transaction
deleteTx_body(d, cc, uid) ==
    IF TxRows(d, uid) = {} THEN Res(d, cc, None, "TxNotFound")
    ELSE Res(deleteTx_unwrapped(d, uid), cc, uid, None)

-----------------------------------------------------------------------------
(* signTx (Vault.cpp 1337-1425) *)

\* query<Key>: the stored private keys among the missing signers of an input;
\* the keys of a signing script are stored with the script
SigningKeys(d, in, sigs) ==
    {h \in in.signers \ sigs :
        /\ ScriptRows(d, in.script) # {}
        /\ \E k \in d.keychains : k.hash = h /\ k.private}

\* the loop over the keys left after the first signature
RECURSIVE SignWithKeys_first(_, _, _, _, _, _)
SignWithKeys_first(d, cc, pk, keys, sigs, sigsneeded) ==
    IF keys = {} \/ sigsneeded = 0 THEN [sigs |-> sigs, err |-> None]
    ELSE
      Let(CHOOSE x \in keys : TRUE, LAMBDA h :
      Let(tryUnlockKeychainPrivateKey_unwrapped(pk, KeychainByHash(d, h)), LAMBDA p :
      Let(tryUnlockKeychainChainCode_unwrapped(cc, KeychainByHash(d, h)), LAMBDA c :
        IF p = "throw" THEN [sigs |-> sigs, err |-> "KeychainPrivateKeyUnlockFailed"]
        ELSE IF p = "false" THEN SignWithKeys_first(d, cc, pk, keys \ {h}, sigs, sigsneeded)
        ELSE IF c = "throw" THEN [sigs |-> sigs, err |-> "KeychainChainCodeUnlockFailed"]
        ELSE IF c = "false" THEN SignWithKeys_first(d, cc, pk, keys \ {h}, sigs, sigsneeded)
        ELSE [sigs |-> sigs \cup {h}, err |-> None])))

\* the loop over the keys of one input: a key signs when both the private key
\* and the chain code of its root keychain unlock with the cached keys
RECURSIVE SignWithKeys(_, _, _, _, _, _)
SignWithKeys(d, cc, pk, keys, sigs, sigsneeded) ==
    IF keys = {} \/ sigsneeded = 0 THEN [sigs |-> sigs, err |-> None]
    ELSE
      Let(CHOOSE x \in keys : TRUE, LAMBDA h :
      Let(tryUnlockKeychainPrivateKey_unwrapped(pk, KeychainByHash(d, h)), LAMBDA p :
      Let(tryUnlockKeychainChainCode_unwrapped(cc, KeychainByHash(d, h)), LAMBDA c :
        IF p = "throw" THEN [sigs |-> sigs, err |-> "KeychainPrivateKeyUnlockFailed"]
        ELSE IF p = "false" THEN SignWithKeys(d, cc, pk, keys \ {h}, sigs, sigsneeded)
        ELSE IF c = "throw" THEN [sigs |-> sigs, err |-> "KeychainChainCodeUnlockFailed"]
        ELSE IF c = "false" THEN SignWithKeys(d, cc, pk, keys \ {h}, sigs, sigsneeded)
        ELSE SignWithKeys(d, cc, pk, keys \ {h}, sigs \cup {h}, sigsneeded - 1))))

SignInput(d, cc, pk, in, sigs) ==
    IF \/ Max(0, in.need - Cardinality(sigs)) = 0
       \/ in.signers \ sigs = {}
       \/ SigningKeys(d, in, sigs) = {}
    THEN [sigs |-> sigs, err |-> None]
    ELSE SignWithKeys(d, cc, pk, SigningKeys(d, in, sigs), sigs,
                      Max(0, in.need - Cardinality(sigs)))

\* signing without the test of sigsadded: the transaction counts as signed
\* whether or not a signature was added
signTx_unwrapped_always(d, cc, pk, row) ==
    Let([i \in 1..Len(Ins(row.uid)) |-> SignInput(d, cc, pk, Ins(row.uid)[i], row.sigs[i])],
        LAMBDA signed :
    Let([i \in DOMAIN signed |-> signed[i].sigs], LAMBDA sigs :
      IF {i \in DOMAIN signed : signed[i].err # None} # {}
      THEN Res(d, cc, FALSE, signed[SetMin({i \in DOMAIN signed : signed[i].err # None})].err)
      ELSE Res(ReplaceTx(d, row, [row EXCEPT !.sigs = sigs,
                                     !.status = updateStatus(row.uid, sigs, row.status, "NO_STATUS")]),
               cc, TRUE, None)))

\* Vault::signTx_unwrapped on the stored row; ret is the returned bool
signTx_unwrapped(d, cc, pk, row) ==
    Let([i \in 1..Len(Ins(row.uid)) |-> SignInput(d, cc, pk, Ins(row.uid)[i], row.sigs[i])],
        LAMBDA signed :
    Let([i \in DOMAIN signed |-> signed[i].sigs], LAMBDA sigs :
      IF {i \in DOMAIN signed : signed[i].err # None} # {}
      THEN Res(d, cc, FALSE, signed[SetMin({i \in DOMAIN signed : signed[i].err # None})].err)
      ELSE IF SumSeq([i \in DOMAIN signed |-> Cardinality(sigs[i] \ row.sigs[i])]) = 0
      THEN Res(d, cc, FALSE, None)
      ELSE Res(ReplaceTx(d, row, [row EXCEPT !.sigs = sigs,
                                     !.status = updateStatus(row.uid, sigs, row.status, "NO_STATUS")]),
               cc, TRUE, None)))

\* Vault::signTx, the part inside the transaction
signTx_body(d, cc, pk, uhash) ==
    IF TxRows(d, uhash) = {} THEN Res(d, cc, FALSE, "TxNotFound")
    ELSE Let(CHOOSE r \in TxRows(d, uhash) : TRUE, LAMBDA row : signTx_unwrapped(d, cc, pk, row))

-----------------------------------------------------------------------------
(* getTx (Vault.cpp 914-931) *)

\* the query matches the hash of the signed form only
getTx_unwrapped_byhash(d, cc, hash) ==
    LET r == {x \in d.txs : RowHash(x) = hash} IN
    IF r = {} THEN Res(d, cc, None, "TxNotFound")
    ELSE Res(d, cc, CHOOSE x \in r : TRUE, None)

\* Vault::getTx_unwrapped: hash == hash || unsigned_hash == hash
getTx_unwrapped(d, cc, hash) ==
    LET r == {x \in d.txs : RowHash(x) = hash \/ UnsignedHash(x.uid, x.sigs) = hash} IN
    IF r = {} THEN Res(d, cc, None, "TxNotFound")
    ELSE Res(d, cc, CHOOSE x \in r : TRUE, None)

-----------------------------------------------------------------------------
(* createTx (Vault.cpp 1187-1252) *)

\* TxOutView(TxOut::status == UNSPENT, receiving_account == account)
Utxos(d, acct) ==
    UNION {{<<r.uid, j>> : j \in {x \in 1..Len(Outs(r.uid)) :
                /\ r.spent[x] = NoTxIn
                /\ \E s \in d.scripts : s.txoutscript = r.signingscript[x] /\ s.account = acct}}
           : r \in d.txs}

UtxoValue(u) == Outs(u[1])[u[2]].value

\* the number of shuffled outputs taken: the shortest prefix whose total
\* reaches the desired total, or all of them
RECURSIVE CoinsTaken(_, _, _, _)
CoinsTaken(order, i, total, desired_total) ==
    IF i > Len(order) THEN Len(order)
    ELSE IF total + UtxoValue(order[i]) >= desired_total THEN i
    ELSE CoinsTaken(order, i + 1, total + UtxoValue(order[i]), desired_total)

\* the transactions whose serialization is the given inputs and outputs
TxWith(d, coins, txouts) ==
    {u \in TxIds :
        /\ Len(Ins(u)) = Len(coins)
        /\ \A i \in 1..Len(coins) :
              /\ \E r \in d.txs : r.uid = coins[i][1] /\ RowHash(r) = OutHash(Ins(u)[i])
              /\ Ins(u)[i].outindex = coins[i][2] - 1
        /\ Outs(u) = txouts}

\* the rest of createTx_unwrapped once the coins are selected (1225-1251)
SpendCoins(d, cc, acct, txouts, desired_total, coins, total) ==
    IF total < desired_total THEN Res(d, cc, None, "AccountInsufficientFunds")
    ELSE IF total - desired_total > 0
    THEN IF ~BinExists(d, acct, CHANGE_BIN_NAME) THEN Res(d, cc, None, "AccountBinNotFound")
         ELSE Let(issueAccountBinSigningScript_unwrapped(d, cc, acct, CHANGE_BIN_NAME, ""), LAMBDA r :
                IF r.err # None THEN r
                ELSE Res(r.db, r.cc, "other", None))
    ELSE IF TxWith(d, coins, txouts) = {} THEN Res(d, cc, "other", None)
    ELSE Res(d, cc, CHOOSE u \in TxWith(d, coins, txouts) : TRUE, None)

\* Vault::createTx_unwrapped; order is the outcome of the shuffle of the
\* unspent outputs.  ret is the created transaction, named by its unsigned
\* hash, or "other" when it is none of the transactions of the model
createTx_unwrapped(d, cc, acct, txouts, fee, order) ==
    IF ~accountExists_unwrapped(d, acct) THEN Res(d, cc, None, "AccountNotFound")
    ELSE
      Let(fee + SumSeq([i \in DOMAIN txouts |-> txouts[i].value]), LAMBDA desired_total :
      Let(SubSeq(order, 1, CoinsTaken(order, 1, 0, desired_total)), LAMBDA coins :
        SpendCoins(d, cc, acct, txouts, desired_total, coins,
                   SumSeq([i \in DOMAIN coins |-> UtxoValue(coins[i])]))))

\* Vault::createTx, the part inside the transaction
createTx_body(d, cc, acct, txouts, fee, order, insert) ==
    Let(createTx_unwrapped(d, cc, acct, txouts, fee, order), LAMBDA r :
      IF r.err # None \/ ~insert \/ r.ret = "other" THEN r
      ELSE insertTx_unwrapped(r.db, r.cc, [uid |-> r.ret, sigs |-> NoSigs(r.ret), status |-> "UNSIGNED"]))

-----------------------------------------------------------------------------
(* Block chain (Vault.cpp 1431-1530) *)

\* uint32_t arithmetic, scaled to a small width
UINT32_MAX == 15
Uint32Add(a, b) == (a + b) % (UINT32_MAX + 1)

TIME_HORIZON_WINDOW == 2

\* the merkle blocks that reach the vault, named by the hash of their header
BlockCat ==
    [b1  |-> [prevhash |-> "b0", height |-> 1, timestamp |-> 1, hashes |-> {}],
     b2  |-> [prevhash |-> "b1", height |-> 2, timestamp |-> 2,
              hashes |-> {TxHash("T0", FullSigs("T0"))}],
     b2x |-> [prevhash |-> "b1", height |-> 2, timestamp |-> 2,
              hashes |-> {TxHash("T4", FullSigs("T4"))}],
     b3  |-> [prevhash |-> "b2", height |-> 3, timestamp |-> 3,
              hashes |-> {TxHash("T4", FullSigs("T4"))}],
     b9  |-> [prevhash |-> "b8", height |-> 3, timestamp |-> 6, hashes |-> {}]]

BlockIds == DOMAIN BlockCat

\* Vault::getBestHeight_unwrapped
getBestHeight_unwrapped(d) == SetMax({h.height : h \in d.headers})

\* Vault::getHorizonTimestamp_unwrapped; HorizonTimestampView is the earliest
\* timestamp among the persisted transactions
getHorizonTimestamp_unwrapped(d) ==
    IF d.txs = {} THEN UINT32_MAX ELSE SetMin({TxCat[r.uid].timestamp : r \in d.txs})

\* the headers a new block at this height disconnects
SideChain(d, height) == {h.hash : h \in {x \in d.headers : x.height >= height}}

\* the reorganization (1474-1490)
Disconnect(d, height) ==
    [d EXCEPT !.mblocks = {m \in @ : m.header \notin SideChain(d, height)},
              !.txs = {IF r.blockheader \in SideChain(d, height)
                       THEN [r EXCEPT !.blockheader = None] ELSE r : r \in @},
              !.headers = {h \in @ : h.height < height}]

\* persisting the block and linking the stored transactions it lists (1493-1503)
Connect(d, b) ==
    [d EXCEPT !.headers = @ \cup {[hash |-> b, prevhash |-> BlockCat[b].prevhash,
                                   height |-> BlockCat[b].height,
                                   timestamp |-> BlockCat[b].timestamp]},
              !.mblocks = @ \cup {[header |-> b, hashes |-> BlockCat[b].hashes]},
              !.txs = {IF RowHash(r) \in BlockCat[b].hashes
                       THEN [r EXCEPT !.blockheader = b] ELSE r : r \in @}]

\* a block whose header is stored already is connected once more
insertMerkleBlock_unwrapped_again(d, cc, b) ==
    LET new_header == BlockCat[b] IN
    IF /\ ~\E h \in d.headers : h.hash = new_header.prevhash
       /\ Uint32Add(new_header.timestamp, TIME_HORIZON_WINDOW) > getHorizonTimestamp_unwrapped(d)
    THEN Res(d, cc, FALSE, None)
    ELSE LET d1 == IF SideChain(d, new_header.height) # {} THEN Disconnect(d, new_header.height)
                   ELSE d IN
         Res(updateConfirmations_unwrapped(Connect(d1, b), None), cc, TRUE, None)

\* Vault::insertMerkleBlock_unwrapped; ret is the returned bool
insertMerkleBlock_unwrapped(d, cc, b) ==
    LET new_header == BlockCat[b] IN
    IF /\ ~\E h \in d.headers : h.hash = new_header.prevhash
       /\ Uint32Add(new_header.timestamp, TIME_HORIZON_WINDOW) > getHorizonTimestamp_unwrapped(d)
    THEN Res(d, cc, FALSE, None)
    ELSE IF \E h \in d.headers : h.hash = b THEN Res(d, cc, FALSE, None)
    ELSE LET d1 == IF SideChain(d, new_header.height) # {} THEN Disconnect(d, new_header.height)
                   ELSE d IN
         Res(updateConfirmations_unwrapped(Connect(d1, b), None), cc, TRUE, None)

-----------------------------------------------------------------------------
(* The public operations: lock_guard, transaction, body, commit *)

\* the outcome of a public call: the committed store, the two unlock maps,
\* the returned value and the exception that left the call
Done(d, cc, pk, ret, err) == [db |-> d, cc |-> cc, pk |-> pk, ret |-> ret, err |-> err]

\* a transaction that keeps what was written although an exception left it
EndTransaction_kept(d, r, commits) == IF commits THEN r.db ELSE d

\* the store when the odb transaction goes out of scope: the transaction's
\* view if t.commit() was reached, the store as it was before otherwise
EndTransaction(d, r, commits) == IF r.err = None /\ commits THEN r.db ELSE d

\* Vault::newKeychain (381-396)
newKeychain(d, cc, pk, name, entropy, lockKey) ==
    Let(newKeychain_body(d, cc, name, entropy, lockKey), LAMBDA r :
        Done(EndTransaction(d, r, TRUE), r.cc, pk, r.ret, r.err))

\* Vault::renameKeychain (398-419)
renameKeychain(d, cc, pk, old, new) ==
    Let(renameKeychain_body(d, cc, old, new), LAMBDA r :
        Done(EndTransaction(d, r, old # new), r.cc, pk, r.ret, r.err))

\* Vault::unlockKeychainChainCode (507-517)
unlockKeychainChainCode(d, cc, pk, name, key) ==
    IF ~keychainExists_unwrapped(d, name) THEN Done(d, cc, pk, None, "KeychainNotFound")
    ELSE IF unlockChainCode(CHOOSE k \in d.keychains : k.name = name, key)
    THEN Done(d, MapPut(cc, name, key), pk, None, None)
    ELSE Done(d, cc, pk, None, None)

\* Vault::unlockKeychainPrivateKey (545-555)
unlockKeychainPrivateKey(d, cc, pk, name, key) ==
    IF ~keychainExists_unwrapped(d, name) THEN Done(d, cc, pk, None, "KeychainNotFound")
    ELSE IF unlockPrivateKey(CHOOSE k \in d.keychains : k.name = name, key)
    THEN Done(d, cc, MapPut(pk, name, key), None, None)
    ELSE Done(d, cc, pk, None, None)

\* Vault::lockKeychainChainCode (499-505)
lockKeychainChainCode(d, cc, pk, name) == Done(d, MapErase(cc, name), pk, None, None)

\* Vault::lockAllKeychainChainCodes (491-497)
lockAllKeychainChainCodes(d, cc, pk) == Done(d, EmptyMap, pk, None, None)

\* Vault::lockKeychainPrivateKey (537-543)
lockKeychainPrivateKey(d, cc, pk, name) == Done(d, cc, MapErase(pk, name), None, None)

\* Vault::lockAllKeychainPrivateKeys (529-535)
lockAllKeychainPrivateKeys(d, cc, pk) == Done(d, cc, EmptyMap, None, None)

\* Vault::exportKeychain (144-154): nothing is committed
exportKeychain(d, cc, pk, name, exportprivkeys) ==
    Let(exportKeychain_body(d, cc, name, exportprivkeys), LAMBDA r :
        Done(EndTransaction(d, r, FALSE), r.cc, pk, r.ret, r.err))

\* Vault::importKeychain (163-172)
importKeychain(d, cc, pk, blob, importprivkeys) ==
    Let(importKeychain_unwrapped(d, cc, blob, importprivkeys), LAMBDA r :
        Done(EndTransaction(d, r, TRUE), r.cc, pk, r.ret, r.err))

\* Vault::newAccount (586-630)
newAccount(d, cc, pk, name, minsigs, keychain_names, unused_pool_size) ==
    Let(newAccount_body(d, cc, name, minsigs, keychain_names, unused_pool_size), LAMBDA r :
        Done(EndTransaction(d, r, TRUE), r.cc, pk, r.ret, r.err))

\* Vault::importAccount (240-250)
importAccount(d, cc, pk, file, order, chain_code_key, countprivkeys, rekeys_locked) ==
    Let(importAccount_unwrapped(d, cc, file, order, chain_code_key, countprivkeys, rekeys_locked),
        LAMBDA r : Done(EndTransaction(d, r, TRUE), r.cc, pk, r.ret, r.err))

\* Vault::issueSigningScript (757-768)
issueSigningScript(d, cc, pk, acct, bin, label) ==
    Let(issueSigningScript_body(d, cc, acct, bin, label), LAMBDA r :
        Done(EndTransaction(d, r, TRUE), r.cc, pk, r.ret, r.err))

\* Vault::addAccountBin (716-755): the name is checked before the mutex is taken
addAccountBin(d, cc, pk, acct, bin) ==
    IF bin = "" \/ bin \in ReservedBinNames THEN Done(d, cc, pk, None, "runtime_error")
    ELSE Let(addAccountBin_body(d, cc, acct, bin), LAMBDA r :
             Done(EndTransaction(d, r, TRUE), r.cc, pk, r.ret, r.err))

\* Vault::refillAccountPool (802-812)
refillAccountPool(d, cc, pk, acct) ==
    Let(refillAccountPool_body(d, cc, acct), LAMBDA r :
        Done(EndTransaction(d, r, TRUE), r.cc, pk, r.ret, r.err))

\* Vault::insertTx (933-943): if (tx) t.commit()
insertTx(d, cc, pk, tx) ==
    Let(insertTx_unwrapped(d, cc, tx), LAMBDA r :
        Done(EndTransaction(d, r, r.ret # None), r.cc, pk, r.ret, r.err))

\* Vault::getTx (914-922): nothing is written
getTx(d, cc, pk, hash) ==
    Let(getTx_unwrapped(d, cc, hash), LAMBDA r :
        Done(EndTransaction(d, r, FALSE), r.cc, pk, r.ret, r.err))

\* Vault::createTx (1187-1201): committed only when inserted
createTx(d, cc, pk, acct, txouts, fee, order, insert) ==
    Let(createTx_body(d, cc, acct, txouts, fee, order, insert), LAMBDA r :
        Done(EndTransaction(d, r, insert /\ r.ret # None), r.cc, pk, r.ret, r.err))

\* Vault::deleteTx (1261-1274)
deleteTx(d, cc, pk, uhash) ==
    Let(deleteTx_body(d, cc, uhash), LAMBDA r :
        Done(EndTransaction(d, r, TRUE), r.cc, pk, r.ret, r.err))

\* Vault::signTx (1337-1356): if (rval && update) commit
signTx(d, cc, pk, uhash, update) ==
    Let(signTx_body(d, cc, pk, uhash), LAMBDA r :
        Done(EndTransaction(d, r, r.ret /\ update), r.cc, pk, r.ret, r.err))

\* Vault::insertMerkleBlock (1447-1455): the transaction is never committed
insertMerkleBlock(d, cc, pk, b) ==
    Let(insertMerkleBlock_unwrapped(d, cc, b), LAMBDA r :
        Done(EndTransaction(d, r, FALSE), r.cc, pk, r.ret, r.err))

\* Vault::getBestHeight (1431-1438)
getBestHeight(d, cc, pk) == Done(d, cc, pk, getBestHeight_unwrapped(d), None)

\* a public call as a value: the operation and its arguments
Call(op, args) == [op |-> op, args |-> args]

\* the public operation a call names, run on a store and the unlock maps
Run(c, d, cc, pk) ==
    CASE c.op = "newKeychain" -> newKeychain(d, cc, pk, c.args[1], c.args[2], c.args[3])
      [] c.op = "renameKeychain" -> renameKeychain(d, cc, pk, c.args[1], c.args[2])
      [] c.op = "unlockKeychainChainCode" -> unlockKeychainChainCode(d, cc, pk, c.args[1], c.args[2])
      [] c.op = "unlockKeychainPrivateKey" -> unlockKeychainPrivateKey(d, cc, pk, c.args[1], c.args[2])
      [] c.op = "lockKeychainChainCode" -> lockKeychainChainCode(d, cc, pk, c.args[1])
      [] c.op = "lockAllKeychainChainCodes" -> lockAllKeychainChainCodes(d, cc, pk)
      [] c.op = "lockKeychainPrivateKey" -> lockKeychainPrivateKey(d, cc, pk, c.args[1])
      [] c.op = "lockAllKeychainPrivateKeys" -> lockAllKeychainPrivateKeys(d, cc, pk)
      [] c.op = "exportKeychain" -> exportKeychain(d, cc, pk, c.args[1], c.args[2])
      [] c.op = "importKeychain" -> importKeychain(d, cc, pk, c.args[1], c.args[2])
      [] c.op = "newAccount" -> newAccount(d, cc, pk, c.args[1], c.args[2], c.args[3], c.args[4])
      [] c.op = "importAccount" ->
            importAccount(d, cc, pk, c.args[1], c.args[2], c.args[3], c.args[4], c.args[5])
      [] c.op = "issueSigningScript" -> issueSigningScript(d, cc, pk, c.args[1], c.args[2], c.args[3])
      [] c.op = "addAccountBin" -> addAccountBin(d, cc, pk, c.args[1], c.args[2])
      [] c.op = "refillAccountPool" -> refillAccountPool(d, cc, pk, c.args[1])
      [] c.op = "insertTx" -> insertTx(d, cc, pk, c.args[1])
      [] c.op = "getTx" -> getTx(d, cc, pk, c.args[1])
      [] c.op = "createTx" -> createTx(d, cc, pk, c.args[1], c.args[2], c.args[3], c.args[4], c.args[5])
      [] c.op = "deleteTx" -> deleteTx(d, cc, pk, c.args[1])
      [] c.op = "signTx" -> signTx(d, cc, pk, c.args[1], c.args[2])
      [] c.op = "insertMerkleBlock" -> insertMerkleBlock(d, cc, pk, c.args[1])
      [] c.op = "getBestHeight" -> getBestHeight(d, cc, pk)

-----------------------------------------------------------------------------
(* The state machine: one action per public operation *)

Threads == {"t1", "t2"}

NoCall == Call(None, << >>)

Init ==
    /\ db = EmptyDb
    /\ mapChainCodeUnlock = EmptyMap
    /\ mapPrivateKeyUnlock = EmptyMap
    /\ mutex = NoThread
    /\ pc = [t \in Threads |-> "idle"]
    /\ call = [t \in Threads |-> NoCall]
    /\ tview = [t \in Threads |-> EmptyDb]
    /\ hist = << >>

WithinBounds(d) == \A b \in d.bins : b.next_script_index <= MaxScriptIndex

\* the call returns: what it committed and the unlock maps as it left them
Return(o) ==
    /\ db' = o.db
    /\ mapChainCodeUnlock' = o.cc
    /\ mapPrivateKeyUnlock' = o.pk
    /\ UNCHANGED threadvars

NewKeychain(name, entropy, lockKey) ==
    \E o \in {newKeychain(db, mapChainCodeUnlock, mapPrivateKeyUnlock, name, entropy, lockKey)} :
        /\ WithinBounds(o.db)
        /\ Return(o)

RenameKeychain(old, new) ==
    \E o \in {renameKeychain(db, mapChainCodeUnlock, mapPrivateKeyUnlock, old, new)} :
        /\ WithinBounds(o.db)
        /\ Return(o)

UnlockKeychainChainCode(name, key) ==
    \E o \in {unlockKeychainChainCode(db, mapChainCodeUnlock, mapPrivateKeyUnlock, name, key)} :
        /\ WithinBounds(o.db)
        /\ Return(o)

UnlockKeychainPrivateKey(name, key) ==
    \E o \in {unlockKeychainPrivateKey(db, mapChainCodeUnlock, mapPrivateKeyUnlock, name, key)} :
        /\ WithinBounds(o.db)
        /\ Return(o)

LockKeychainChainCode(name) ==
    \E o \in {lockKeychainChainCode(db, mapChainCodeUnlock, mapPrivateKeyUnlock, name)} :
        /\ WithinBounds(o.db)
        /\ Return(o)

LockAllKeychainChainCodes ==
    \E o \in {lockAllKeychainChainCodes(db, mapChainCodeUnlock, mapPrivateKeyUnlock)} :
        /\ WithinBounds(o.db)
        /\ Return(o)

LockKeychainPrivateKey(name) ==
    \E o \in {lockKeychainPrivateKey(db, mapChainCodeUnlock, mapPrivateKeyUnlock, name)} :
        /\ WithinBounds(o.db)
        /\ Return(o)

LockAllKeychainPrivateKeys ==
    \E o \in {lockAllKeychainPrivateKeys(db, mapChainCodeUnlock, mapPrivateKeyUnlock)} :
        /\ WithinBounds(o.db)
        /\ Return(o)

ExportKeychain(name, exportprivkeys) ==
    \E o \in {exportKeychain(db, mapChainCodeUnlock, mapPrivateKeyUnlock, name, exportprivkeys)} :
        /\ WithinBounds(o.db)
        /\ Return(o)

ImportKeychainBlob(blob, importprivkeys) ==
    \E o \in {importKeychain(db, mapChainCodeUnlock, mapPrivateKeyUnlock, blob, importprivkeys)} :
        /\ WithinBounds(o.db)
        /\ Return(o)

NewAccount(name, minsigs, keychain_names, unused_pool_size) ==
    \E o \in {newAccount(db, mapChainCodeUnlock, mapPrivateKeyUnlock,
                         name, minsigs, keychain_names, unused_pool_size)} :
        /\ WithinBounds(o.db)
        /\ Return(o)

\* the orders in which a set can be traversed or shuffled
RECURSIVE Orders(_)
Orders(S) == IF S = {} THEN {<< >>}
             ELSE UNION {{<<x>> \o o : o \in Orders(S \ {x})} : x \in S}

ImportAccount(f, chain_code_key, countprivkeys, rekeys_locked) ==
    \E order \in Orders(AccountFiles[f].keychains) :
    \E o \in {importAccount(db, mapChainCodeUnlock, mapPrivateKeyUnlock, AccountFiles[f], order,
                            chain_code_key, countprivkeys, rekeys_locked)} :
        /\ WithinBounds(o.db)
        /\ Return(o)

IssueSigningScript(acct, bin, label) ==
    \E o \in {issueSigningScript(db, mapChainCodeUnlock, mapPrivateKeyUnlock, acct, bin, label)} :
        /\ WithinBounds(o.db)
        /\ Return(o)

AddAccountBin(acct, bin) ==
    \E o \in {addAccountBin(db, mapChainCodeUnlock, mapPrivateKeyUnlock, acct, bin)} :
        /\ WithinBounds(o.db)
        /\ Return(o)

RefillAccountPool(acct) ==
    \E o \in {refillAccountPool(db, mapChainCodeUnlock, mapPrivateKeyUnlock, acct)} :
        /\ WithinBounds(o.db)
        /\ Return(o)

\* the signature sets an incoming copy of a transaction may carry
SigChoices(uid) ==
    {s \in [1..Len(Ins(uid)) -> SUBSET SignersA] : \A i \in DOMAIN s : s[i] \subseteq Ins(uid)[i].signers}

InStatuses == {"UNSENT", "CONFIRMED"}

InsertTx(uid, sigs, status) ==
    \E o \in {insertTx(db, mapChainCodeUnlock, mapPrivateKeyUnlock,
                       [uid |-> uid, sigs |-> sigs, status |-> status])} :
        /\ WithinBounds(o.db)
        /\ Return(o)

DeleteTx(uhash) ==
    \E o \in {deleteTx(db, mapChainCodeUnlock, mapPrivateKeyUnlock, uhash)} :
        /\ WithinBounds(o.db)
        /\ Return(o)

SignTx(uhash, update) ==
    \E o \in {signTx(db, mapChainCodeUnlock, mapPrivateKeyUnlock, uhash, update)} :
        /\ WithinBounds(o.db)
        /\ Return(o)

GetTx(hash) ==
    \E o \in {getTx(db, mapChainCodeUnlock, mapPrivateKeyUnlock, hash)} :
        /\ WithinBounds(o.db)
        /\ Return(o)

\* the payments asked of createTx
Requests == {<< Out(ForeignScript(3), 3) >>, << Out(ForeignScript(3), 2) >>}

CreateTx(acct, txouts, fee, insert) ==
    \E order \in Orders(Utxos(db, acct)) :
    \E o \in {createTx(db, mapChainCodeUnlock, mapPrivateKeyUnlock,
                       acct, txouts, fee, order, insert)} :
        /\ o.ret # "other"
        /\ WithinBounds(o.db)
        /\ Return(o)

InsertMerkleBlock(b) ==
    \E o \in {insertMerkleBlock(db, mapChainCodeUnlock, mapPrivateKeyUnlock, b)} :
        /\ WithinBounds(o.db)
        /\ Return(o)

GetBestHeight ==
    \E o \in {getBestHeight(db, mapChainCodeUnlock, mapPrivateKeyUnlock)} :
        /\ WithinBounds(o.db)
        /\ Return(o)

\* the keychains of the scenarios: k1 is seeded by e1, k2 by e2
EntropyOf == [k1 |-> "e1", k2 |-> "e2"]

\* the chain code keys tried by the callers
KeyChoices == {GoodKey, BadKey}

\* the transactions offered to a vault under construction: a payment to the
\* account and a spend of it with an outpoint out of range
VaultTxs == {"T0", "T5"}

\* the vault from its creation on: keychains, accounts, account archives,
\* script issuance and the first transactions
Next ==
    \/ \E n \in KeychainNames : NewKeychain(n, EntropyOf[n], GoodKey)
    \/ \E old, new \in KeychainNames : RenameKeychain(old, new)
    \/ \E n \in KeychainNames : \E key \in KeyChoices : UnlockKeychainChainCode(n, key)
    \/ \E n \in KeychainNames : LockKeychainChainCode(n)
    \/ LockAllKeychainChainCodes
    \/ \E p \in 1..PoolSize : NewAccount(AccountA.name, AccountA.minsigs, AccountA.keychain_names, p)
    \/ \E f \in FileIds : \E key \in KeyChoices : \E rekeys_locked \in BOOLEAN :
          ImportAccount(f, key, TRUE, rekeys_locked)
    \/ \E b \in {DEFAULT_BIN_NAME, CHANGE_BIN_NAME} : IssueSigningScript(AccountA.name, b, "pay")
    \/ \E u \in VaultTxs : InsertTx(u, FullSigs(u), "UNSENT")
    \/ \E u \in VaultTxs : DeleteTx(u)

Spec == Init /\ [][Next]_vars

-----------------------------------------------------------------------------
(* The transaction engine on a vault that holds the account of the scenarios *)

\* the outcome of a sequence of public calls made one after the other
RECURSIVE Chain(_, _)
Chain(o, calls) ==
    IF calls = << >> THEN o
    ELSE Let(Run(Head(calls), o.db, o.cc, o.pk), LAMBDA o1 : Chain(o1, Tail(calls)))

\* the vault after newKeychain(k1), newKeychain(k2), both chain codes
\* unlocked, and newAccount(A, 2 of {k1, k2}, PoolSize)
AccountSetUp ==
    Chain(Done(EmptyDb, EmptyMap, EmptyMap, None, None),
          << Call("newKeychain", <<"k1", "e1", GoodKey>>),
             Call("newKeychain", <<"k2", "e2", GoodKey>>),
             Call("unlockKeychainChainCode", <<"k1", GoodKey>>),
             Call("unlockKeychainChainCode", <<"k2", GoodKey>>),
             Call("newAccount", <<AccountA.name, AccountA.minsigs, AccountA.keychain_names, PoolSize>>) >>)

InitTx ==
    /\ db = AccountSetUp.db
    /\ mapChainCodeUnlock = AccountSetUp.cc
    /\ mapPrivateKeyUnlock = EmptyMap
    /\ mutex = NoThread
    /\ pc = [t \in Threads |-> "idle"]
    /\ call = [t \in Threads |-> NoCall]
    /\ tview = [t \in Threads |-> EmptyDb]
    /\ hist = << >>

\* the transactions offered to the engine: a payment to the account, two
\* spends of the same output, one with an outpoint out of range and one
\* that does not concern the vault
EngineTxs == {"T0", "T1", "T2", "T5", "T6"}

\* the copies of them that insertTx may be handed
TxInputs ==
    {[uid |-> x[1], sigs |-> x[2], status |-> x[3]] :
        x \in UNION {{<<u, s, st>> : s \in SigChoices(u), st \in InStatuses} : u \in EngineTxs}}

NextTx ==
    \/ \E n \in KeychainNames : UnlockKeychainPrivateKey(n, EmptyKey)
    \/ LockAllKeychainChainCodes
    \/ \E b \in {DEFAULT_BIN_NAME, CHANGE_BIN_NAME} : IssueSigningScript(AccountA.name, b, "pay")
    \/ \E tx \in TxInputs : InsertTx(tx.uid, tx.sigs, tx.status)
    \/ \E u \in EngineTxs : DeleteTx(u)
    \/ \E u \in EngineTxs : \E upd \in BOOLEAN : SignTx(u, upd)
    \/ \E q \in Requests : \E ins \in BOOLEAN : CreateTx(AccountA.name, q, 0, ins)
    \/ \E u \in EngineTxs : GetTx(UnsignedHash(u, NoSigs(u)))

SpecTx == InitTx /\ [][NextTx]_vars

-----------------------------------------------------------------------------
(* The block chain on a vault file that holds blocks already *)

\* the store after the blocks have been connected one after the other
RECURSIVE StoredBlocks(_, _)
StoredBlocks(d, blocks) ==
    IF blocks = << >> THEN d
    ELSE Let(insertMerkleBlock_unwrapped(d, EmptyMap, Head(blocks)).db,
             LAMBDA d1 : StoredBlocks(d1, Tail(blocks)))

\* the vault file the constructor opens: the account of the scenarios, the
\* payment T0 and the headers and merkle blocks b1 and b2, T0 confirmed in b2
ChainSetUp ==
    Let(Chain(AccountSetUp,
              << Call("insertTx", << [uid |-> "T0", sigs |-> FullSigs("T0"), status |-> "SENT"] >>) >>),
        LAMBDA o : [o EXCEPT !.db = StoredBlocks(o.db, << "b1", "b2" >>)])

InitChain ==
    /\ db = ChainSetUp.db
    /\ mapChainCodeUnlock = ChainSetUp.cc
    /\ mapPrivateKeyUnlock = EmptyMap
    /\ mutex = NoThread
    /\ pc = [t \in Threads |-> "idle"]
    /\ call = [t \in Threads |-> NoCall]
    /\ tview = [t \in Threads |-> EmptyDb]
    /\ hist = << >>

\* the transactions that reach the vault while it follows the chain
ChainTxs == {"T0", "T1", "T4"}

ChainStatuses == {"UNSENT", "SENT"}

NextChain ==
    \/ \E b \in BlockIds : InsertMerkleBlock(b)
    \/ GetBestHeight
    \/ \E u \in ChainTxs : \E st \in ChainStatuses : InsertTx(u, FullSigs(u), st)
    \/ \E u \in ChainTxs : DeleteTx(u)
    \/ IssueSigningScript(AccountA.name, DEFAULT_BIN_NAME, "pay")
    \/ \E n \in KeychainNames : UnlockKeychainChainCode(n, GoodKey)
    \/ \E n \in KeychainNames : LockKeychainChainCode(n)

SpecChain == InitChain /\ [][NextChain]_vars

-----------------------------------------------------------------------------
(* Concurrent callers: every public operation takes the global mutex first *)

Pending == "pending"

\* the calls the threads make
ThreadCalls ==
    {Call("issueSigningScript", <<AccountA.name, DEFAULT_BIN_NAME, "pay">>),
     Call("lockAllKeychainChainCodes", << >>),
     Call("lockKeychainChainCode", <<"k1">>),
     Call("unlockKeychainChainCode", <<"k1", GoodKey>>)}

\* the number of calls made so far
CallsMade == Len(hist) + Cardinality({t \in Threads : pc[t] = "waiting"})

\* a thread calls a public operation
Invoke(t, c) ==
    /\ pc[t] = "idle"
    /\ CallsMade < MaxCalls
    /\ pc' = [pc EXCEPT ![t] = "waiting"]
    /\ call' = [call EXCEPT ![t] = c]
    /\ UNCHANGED <<storevars, mutex, tview, hist>>

\* a lock that is handed out although another thread holds it
lock_guard_unguarded(t) == TRUE

\* boost::lock_guard<boost::mutex> lock(mutex): blocks until the mutex is free
lock_guard(t) == mutex = NoThread

\* the first statement of every public operation
Lock(t) ==
    /\ pc[t] = "waiting"
    /\ lock_guard(t)
    /\ mutex' = t
    /\ pc' = [pc EXCEPT ![t] = "locked"]
    /\ hist' = Append(hist, [call |-> call[t], thread |-> t, ret |-> Pending, err |-> Pending])
    /\ UNCHANGED <<storevars, call, tview>>

\* odb::core::transaction t(db_->begin())
Begin(t) ==
    /\ pc[t] = "locked"
    /\ tview' = [tview EXCEPT ![t] = db]
    /\ pc' = [pc EXCEPT ![t] = "running"]
    /\ UNCHANGED <<storevars, mutex, call, hist>>

\* the position of the thread's unfinished call in the history
PendingCall(h, t) == CHOOSE i \in DOMAIN h : h[i].thread = t /\ h[i].err = Pending

\* the body of the operation, the end of its transaction and of the lock
Finish(t) ==
    /\ pc[t] = "running"
    /\ \E o \in {Run(call[t], tview[t], mapChainCodeUnlock, mapPrivateKeyUnlock)} :
          /\ WithinBounds(o.db)
          /\ db' = IF o.db = tview[t] THEN db ELSE o.db
          /\ mapChainCodeUnlock' = o.cc
          /\ mapPrivateKeyUnlock' = o.pk
          /\ hist' = [hist EXCEPT ![PendingCall(hist, t)].ret = o.ret,
                                  ![PendingCall(hist, t)].err = o.err]
    /\ mutex' = IF mutex = t THEN NoThread ELSE mutex
    /\ pc' = [pc EXCEPT ![t] = "idle"]
    /\ call' = [call EXCEPT ![t] = NoCall]
    /\ tview' = [tview EXCEPT ![t] = EmptyDb]

NextMutex ==
    \/ \E t \in Threads : \E c \in ThreadCalls : Invoke(t, c)
    \/ \E t \in Threads : Lock(t)
    \/ \E t \in Threads : Begin(t)
    \/ \E t \in Threads : Finish(t)

SpecMutex == InitTx /\ [][NextMutex]_vars

-----------------------------------------------------------------------------
(* The signing script pools of a vault that holds the two keychains *)

KeychainSetUp ==
    Chain(Done(EmptyDb, EmptyMap, EmptyMap, None, None),
          << Call("newKeychain", <<"k1", "e1", GoodKey>>),
             Call("newKeychain", <<"k2", "e2", GoodKey>>) >>)

InitPool ==
    /\ db = KeychainSetUp.db
    /\ mapChainCodeUnlock = EmptyMap
    /\ mapPrivateKeyUnlock = EmptyMap
    /\ mutex = NoThread
    /\ pc = [t \in Threads |-> "idle"]
    /\ call = [t \in Threads |-> NoCall]
    /\ tview = [t \in Threads |-> EmptyDb]
    /\ hist = << >>

\* the bins asked for by name
PoolBins == {DEFAULT_BIN_NAME, CHANGE_BIN_NAME, "savings"}

\* the transactions that pay scripts of the pools
PoolTxs == {"T0", "T1"}

NextPool ==
    \/ \E n \in KeychainNames : UnlockKeychainChainCode(n, GoodKey)
    \/ LockAllKeychainChainCodes
    \/ \E p \in 1..MaxPoolSize : NewAccount(AccountA.name, AccountA.minsigs, AccountA.keychain_names, p)
    \/ \E rekeys_locked \in BOOLEAN : ImportAccount("F2", GoodKey, TRUE, rekeys_locked)
    \/ \E b \in PoolBins : AddAccountBin(AccountA.name, b)
    \/ \E b \in PoolBins : IssueSigningScript(AccountA.name, b, "pay")
    \/ RefillAccountPool(AccountA.name)
    \/ \E u \in PoolTxs : InsertTx(u, FullSigs(u), "UNSENT")
    \/ \E u \in PoolTxs : DeleteTx(u)

SpecPool == InitPool /\ [][NextPool]_vars

BinScripts(d, b) == {s \in d.scripts : s.account = b.account /\ s.bin = b.name}

C12_RefillFillsPool ==
    \A b \in db.bins :
        LET r == refillAccountBinPool_unwrapped(db, mapChainCodeUnlock, b.account, b.name)
            pool == AccountByName(db, b.account).unused_pool_size
            count == ScriptCount(db, b.account, b.name, "UNUSED")
            n == IF pool > count THEN pool - count ELSE 0
            made == r.db.scripts \ db.scripts IN
        r.err = None =>
            /\ ScriptCount(r.db, b.account, b.name, "UNUSED") >= pool
            /\ db.scripts \subseteq r.db.scripts
            /\ Cardinality(made) = n
            /\ {s.index : s \in made} = b.next_script_index..(b.next_script_index + n - 1)
            /\ \A s \in made : s.account = b.account /\ s.bin = b.name /\ s.status = "UNUSED"

\* a refill is about to create a script: the chain codes are unlocked and a
\* bin holds fewer UNUSED scripts than the pool size
C12_Witness ==
    \E b \in db.bins :
        LET r == refillAccountBinPool_unwrapped(db, mapChainCodeUnlock, b.account, b.name) IN
        /\ r.err = None
        /\ r.db.scripts # db.scripts
        /\ \E s \in BinScripts(db, b) : s.status # "UNUSED"

\* C26: a successful newAccount(name, minsigs, keychains, pool_size) leaves
\* the account with exactly two bins, the change bin created first and the
\* default bin second, each holding exactly pool_size signing scripts at the
\* indices 0..pool_size-1, all UNUSED, with next_script_index = pool_size.
C26_NewAccountBins ==
    \A p \in 1..MaxPoolSize :
        LET o == newAccount(db, mapChainCodeUnlock, mapPrivateKeyUnlock, AccountA.name,
                            AccountA.minsigs, AccountA.keychain_names, p)
            bins == {b \in o.db.bins : b.account = AccountA.name} IN
        o.err = None =>
            /\ \E a \in o.db.accounts : a.name = AccountA.name /\ a.unused_pool_size = p
            /\ {<<b.order, b.name>> : b \in bins} =
                   {<<1, CHANGE_BIN_NAME>>, <<2, DEFAULT_BIN_NAME>>}
            /\ Cardinality(bins) = 2
            /\ \A b \in bins :
                  /\ b.next_script_index = p
                  /\ {s.index : s \in BinScripts(o.db, b)} = 0..(p - 1)
                  /\ Cardinality(BinScripts(o.db, b)) = p
                  /\ \A s \in BinScripts(o.db, b) : s.status = "UNUSED"

\* the account was created with a pool of two scripts per bin and nothing
\* has touched its scripts since
C26_Witness ==
    /\ \E a \in db.accounts : a.name = AccountA.name /\ a.unused_pool_size = 2
    /\ Cardinality(db.bins) = 2
    /\ Cardinality(db.scripts) = 4
    /\ \A s \in db.scripts : s.status = "UNUSED"
    /\ \A b \in db.bins : b.next_script_index = 2

\* the moves of a signing script's status along UNUSED -> ISSUED -> USED
\* and UNUSED -> CHANGE -> USED
ForwardMoves ==
    {<<"UNUSED", "ISSUED">>, <<"UNUSED", "USED">>, <<"ISSUED", "USED">>,
     <<"UNUSED", "CHANGE">>, <<"CHANGE", "USED">>}

SameScript(s, t) == s.account = t.account /\ s.bin = t.bin /\ s.index = t.index

\* C13: the status of a stored signing script only moves forward along
\* UNUSED -> ISSUED -> USED or UNUSED -> CHANGE -> USED, never back and never
\* between ISSUED and CHANGE, and deleteTx changes no signing script.
C13_ScriptStatusForward ==
    [][/\ \A s \in db.scripts : \E t \in db'.scripts :
              /\ SameScript(s, t)
              /\ (t.status = s.status \/ <<s.status, t.status>> \in ForwardMoves)
       /\ \A u \in TxIds :
              deleteTx(db, mapChainCodeUnlock, mapPrivateKeyUnlock, u).db.scripts = db.scripts]_vars

\* the transaction that paid an issued script has been deleted again and the
\* script is still USED, while a script of the change bin is CHANGE
C13_Witness ==
    /\ \A r \in db.txs : r.uid # "T0"
    /\ \E s \in db.scripts : s.bin = DEFAULT_BIN_NAME /\ s.label = "pay" /\ s.status = "USED"
    /\ \E s \in db.scripts : s.bin = CHANGE_BIN_NAME /\ s.status = "CHANGE"

\* C14: issueSigningScript on a bin other than the change bin returns the
\* UNUSED script of smallest index of that bin, sets its status to ISSUED and
\* stores the label, and leaves every other script as it was; it fails with
\* AccountBinOutOfScripts exactly when the bin holds no UNUSED script and the
\* refill cannot add one.
C14_IssuesSmallestUnused ==
    \A b \in {x \in db.bins : ~isChange(x.name)} :
        LET o == issueSigningScript(db, mapChainCodeUnlock, mapPrivateKeyUnlock,
                                    b.account, b.name, "memo")
            unused == {s \in BinScripts(db, b) : s.status = "UNUSED"}
            norefill == LockedKeychains(db, mapChainCodeUnlock, AccountByName(db, b.account)) # {}
                        \/ AccountByName(db, b.account).unused_pool_size = 0
            issued == {s \in BinScripts(o.db, b) : s.txoutscript = o.ret} IN
        /\ (o.err = "AccountBinOutOfScripts") <=> (unused = {} /\ norefill)
        /\ o.err \in {None, "AccountBinOutOfScripts"}
        /\ o.err = None =>
              /\ Cardinality(issued) = 1
              /\ \A s \in issued :
                    /\ s.status = "ISSUED" /\ s.label = "memo"
                    /\ \A t \in unused : s.index <= t.index
                    /\ unused # {} => [s EXCEPT !.status = "UNUSED", !.label = ""] \in unused
                    /\ \A t \in db.scripts :
                          SameScript(s, t) \/ t \in o.db.scripts

\* a script was issued from a bin that held two UNUSED scripts: the one of
\* smaller index is ISSUED, the other still UNUSED
C14_Witness ==
    \E s, t \in db.scripts :
        /\ s.account = t.account /\ s.bin = t.bin /\ ~isChange(s.bin)
        /\ s.index < t.index
        /\ s.status = "ISSUED" /\ s.label = "pay"
        /\ t.status = "UNUSED"
        /\ AccountByName(db, s.account).unused_pool_size = 2
        /\ BinRow(db, s.account, s.bin).next_script_index = 2

\* C15: issuing a script from the change bin always fails with
\* AccountCannotIssueChangeScript and changes nothing, and no script of a
\* change bin has status ISSUED.
C15_ChangeBinNeverIssues ==
    /\ \A b \in {x \in db.bins : isChange(x.name)} :
          LET o == issueSigningScript(db, mapChainCodeUnlock, mapPrivateKeyUnlock,
                                      b.account, b.name, "memo") IN
          /\ o.err = "AccountCannotIssueChangeScript"
          /\ o.ret = None
          /\ o.db = db
          /\ o.cc = mapChainCodeUnlock
    /\ \A s \in db.scripts : isChange(s.bin) => s.status # "ISSUED"

\* issuance would find a script in the change bin: the bin holds an UNUSED
\* script, the chain codes are unlocked and the default bin of the account
\* has issued one
C15_Witness ==
    \E s, t \in db.scripts :
        /\ s.account = t.account
        /\ isChange(s.bin) /\ s.status = "UNUSED"
        /\ t.bin = DEFAULT_BIN_NAME /\ t.status = "ISSUED" /\ t.label = "pay"
        /\ LockedKeychains(db, mapChainCodeUnlock, AccountByName(db, s.account)) = {}

\* whether an input of the transaction spends a stored output that pays a
\* signing script of the vault
SentFromVault(d, uid) ==
    \E i \in 1..Len(Ins(uid)) : \E r \in d.txs :
        /\ RowHash(r) = OutHash(Ins(uid)[i])
        /\ Ins(uid)[i].outindex < Len(Outs(r.uid))
        /\ \E s \in d.scripts : s.txoutscript = Outs(r.uid)[Ins(uid)[i].outindex + 1].script

PaidBy(s, uid) == \E j \in 1..Len(Outs(uid)) : Outs(uid)[j].script = s.txoutscript

\* the status the paragraph on paid scripts gives a script after the payment
StatusAfterPayment(s, sent_from_vault) ==
    IF s.status = "UNUSED"
    THEN IF sent_from_vault /\ isChange(s.bin) THEN "CHANGE" ELSE "USED"
    ELSE IF s.status = "ISSUED" THEN "USED"
    ELSE s.status

\* the copies of the catalogue's transactions that are new to the store
NewTxs(d) ==
    {tx \in UNION {{[uid |-> u, sigs |-> FullSigs(u), status |-> st] : st \in {"UNSENT", "SENT"}} : u \in TxIds} :
        DuplicatesOf(d, tx) = {}}

\* C31: when insertTx persists a new transaction, every stored signing
\* script paid by one of its outputs goes from UNUSED to CHANGE if the
\* transaction is sent from the vault and the script's bin is the change bin,
\* from UNUSED to USED otherwise, from ISSUED to USED, and stays USED or
\* CHANGE; scripts the transaction does not pay keep their status.
C31_PaidScriptStatus ==
    \A tx \in NewTxs(db) :
        LET o == insertTx(db, mapChainCodeUnlock, mapPrivateKeyUnlock, tx) IN
        o.ret # None =>
            \A s \in db.scripts : \E t \in o.db.scripts :
                /\ SameScript(s, t)
                /\ t.txoutscript = s.txoutscript
                /\ t.status = IF PaidBy(s, tx.uid)
                              THEN StatusAfterPayment(s, SentFromVault(db, tx.uid))
                              ELSE s.status

\* T0 and its spend T1 are stored, the default script that T0 pays is USED
\* and the change script that T1 pays is CHANGE, in an account whose change
\* bin still holds an UNUSED script
C31_Witness ==
    /\ \E r \in db.txs : r.uid = "T0"
    /\ \E r \in db.txs : r.uid = "T1" /\ r.signingscript[2] = ChangeScript(0)
    /\ \E s \in db.scripts : s.txoutscript = DefaultScript(0) /\ s.status = "USED"
    /\ \E s \in db.scripts : s.txoutscript = ChangeScript(0) /\ s.status = "CHANGE"
    /\ \E s \in db.scripts : s.txoutscript = ChangeScript(1) /\ s.status = "UNUSED"

\* whether a keychain of the account has no cached chain code key that
\* decrypts it
ChainCodesLocked(d, cc, a) == LockedKeychains(d, cc, a) # {}

\* the scripts of the store without their status and label
ScriptIds(d) == {<<s.account, s.bin, s.index>> : s \in d.scripts}

\* whether the transaction concerns the vault
Concerns(d, uid) ==
    SentFromVault(d, uid) \/ \E s \in d.scripts : PaidBy(s, uid)

\* C37: with the chain codes of the account locked, issueSigningScript and
\* insertTx do not fail with AccountChainCodeLocked; issuance still returns
\* the UNUSED script of smallest index while the bin holds one, insertTx
\* still persists the transaction and updates the statuses of the scripts it
\* pays, and neither creates a signing script or changes a
\* next_script_index.
C37_LockedRefillAbsorbed ==
    (db.accounts # {} /\ \A a \in db.accounts : ChainCodesLocked(db, mapChainCodeUnlock, a)) =>
        /\ \A b \in db.bins :
              LET o == issueSigningScript(db, mapChainCodeUnlock, mapPrivateKeyUnlock,
                                          b.account, b.name, "memo")
                  unused == {s \in BinScripts(db, b) : s.status = "UNUSED"} IN
              /\ o.err # "AccountChainCodeLocked"
              /\ ScriptIds(o.db) = ScriptIds(db)
              /\ o.db.bins = db.bins
              /\ (unused # {} /\ ~isChange(b.name)) =>
                    /\ o.err = None
                    /\ \E s \in unused :
                          /\ o.ret = s.txoutscript
                          /\ \A t \in unused : s.index <= t.index
                          /\ [s EXCEPT !.status = "ISSUED", !.label = "memo"] \in o.db.scripts
        /\ \A tx \in NewTxs(db) :
              LET o == insertTx(db, mapChainCodeUnlock, mapPrivateKeyUnlock, tx) IN
              /\ o.err # "AccountChainCodeLocked"
              /\ ScriptIds(o.db) = ScriptIds(db)
              /\ o.db.bins = db.bins
              /\ (Concerns(db, tx.uid) /\ o.err = None) =>
                    /\ o.ret = tx.uid
                    /\ \E r \in o.db.txs : r.uid = tx.uid
                    /\ \A s \in db.scripts : \E t \in o.db.scripts :
                          /\ SameScript(s, t)
                          /\ t.status = IF PaidBy(s, tx.uid)
                                        THEN StatusAfterPayment(s, SentFromVault(db, tx.uid))
                                        ELSE s.status

\* the chain codes are locked and the default bin of an account with a pool
\* of two has issued both of its scripts without deriving a third
C37_Witness ==
    /\ mapChainCodeUnlock = EmptyMap
    /\ \E a \in db.accounts : \E b \in db.bins :
          /\ a.unused_pool_size = 2
          /\ b.account = a.name /\ b.name = DEFAULT_BIN_NAME
          /\ b.next_script_index = 2
          /\ \A s \in BinScripts(db, b) : s.status = "ISSUED"
          /\ Cardinality(BinScripts(db, b)) = 2

-----------------------------------------------------------------------------
(* Properties of the transaction engine, checked under SpecTx *)

TxRow(d, uid) == CHOOSE r \in d.txs : r.uid = uid

TxStored(d, uid) == \E r \in d.txs : r.uid = uid

\* the persisted transactions with an input whose (outhash, outindex) is the
\* k-th output of the stored transaction r
Spenders(d, r, k) ==
    {t \in d.txs : \E i \in 1..Len(Ins(t.uid)) :
        /\ OutHash(Ins(t.uid)[i]) = RowHash(r)
        /\ Ins(t.uid)[i].outindex = k - 1}

\* C1: for every stored TxOut, its spent link is non-null if and only if a
\* persisted TxIn with the matching (outhash, outindex) belongs to a
\* transaction whose status is not CONFLICTING.
C1_SpentIffLiveSpender ==
    \A r \in db.txs : \A k \in 1..Len(Outs(r.uid)) :
        (r.spent[k] # NoTxIn) <=> (\E t \in Spenders(db, r, k) : t.status # "CONFLICTING")

\* the stored transactions whose input holds the spent link of an outpoint
\* that an input of tx refers to
ConflictsOf(d, tx) ==
    {p[1].spent[Ins(tx.uid)[p[2]].outindex + 1].tx :
        p \in {q \in d.txs \X (1..Len(Ins(tx.uid))) :
                 /\ RowHash(q[1]) = OutHash(Ins(tx.uid)[q[2]])
                 /\ Ins(tx.uid)[q[2]].outindex < Len(Outs(q[1].uid))
                 /\ q[1].spent[Ins(tx.uid)[q[2]].outindex + 1] # NoTxIn}}

\* insertTx persists a new transaction that double-spends stored outpoints
DoubleSpendInserted(tx, o) ==
    /\ ~TxStored(db, tx.uid)
    /\ o.err = None /\ o.ret # None
    /\ ConflictsOf(db, tx) # {}
    /\ \A t \in ConflictsOf(db, tx) : t # tx.uid /\ TxStored(db, t)

C3_UniqueUnsignedHash ==
    /\ \A r1, r2 \in db.txs :
          UnsignedHash(r1.uid, r1.sigs) = UnsignedHash(r2.uid, r2.sigs) => r1 = r2
    /\ \A tx \in TxInputs :
          TxRows(db, UnsignedHash(tx.uid, tx.sigs)) # {} =>
              Cardinality(insertTx(db, mapChainCodeUnlock, mapPrivateKeyUnlock, tx).db.txs)
                  = Cardinality(db.txs)

\* a copy of a stored transaction has been inserted and reconciled with it:
\* the one stored row of T1 holds the signatures of two partial copies
C3_Witness ==
    /\ Cardinality(TxRows(db, "T1")) = 1
    /\ TxRow(db, "T1").status = "UNSIGNED"
    /\ TxRow(db, "T1").sigs = FullSigs("T1")

\* C4: a stored Tx has status UNSIGNED if and only if at least one of its
\* inputs carries fewer than the required number of signatures.
C4_UnsignedIffMissingSigs ==
    \A r \in db.txs : (r.status = "UNSIGNED") <=> (missingSigCount(r.uid, r.sigs) > 0)

\* the stored transactions that directly or transitively have an input
\* referring to an output of one of the transactions in S
RECURSIVE DependentsOf(_, _)
DependentsOf(d, S) ==
    LET N == S \cup {t \in d.txs : \E r \in S : \E k \in 1..Len(Outs(r.uid)) : t \in Spenders(d, r, k)} IN
    IF N = S THEN S ELSE DependentsOf(d, N)

\* C9: after deleteTx(h) succeeds the transaction is absent, no stored TxOut
\* has a spent link to one of its inputs, and every stored transaction that
\* directly or transitively spends one of its outputs is absent as well.
C9_DeleteRemovesDependents ==
    \A u \in EngineTxs :
        LET o == deleteTx(db, mapChainCodeUnlock, mapPrivateKeyUnlock, u) IN
        (TxStored(db, u) /\ o.err = None) =>
            /\ ~TxStored(o.db, u)
            /\ \A r \in o.db.txs : \A k \in 1..Len(Outs(r.uid)) : r.spent[k].tx # u
            /\ \A t \in DependentsOf(db, {TxRow(db, u)}) : ~TxStored(o.db, t.uid)

\* the bins of which insertTx moves a script to USED or CHANGE
BinsPaid(d, o) ==
    {<<s.account, s.bin>> : s \in {x \in d.scripts :
        /\ x.status \in {"UNUSED", "ISSUED"}
        /\ \E y \in o.db.scripts :
              y.txoutscript = x.txoutscript /\ y.status \in {"USED", "CHANGE"}}}

\* C10: with the chain codes of the account unlocked, once insertTx has
\* persisted a transaction that pays signing scripts of a bin, that bin
\* holds unused_pool_size UNUSED scripts again.
C10_PoolRefilledOnPayment ==
    \A tx \in TxInputs :
        LET o == insertTx(db, mapChainCodeUnlock, mapPrivateKeyUnlock, tx) IN
        (/\ o.err = None /\ o.ret # None
         /\ \A a \in db.accounts : LockedKeychains(db, mapChainCodeUnlock, a) = {}) =>
            \A b \in BinsPaid(db, o) :
                ScriptCount(o.db, b[1], b[2], "UNUSED") = AccountByName(db, b[1]).unused_pool_size

\* the value requested of createTx and the value of the outputs it selects
\* from a shuffle
Requested(txouts, fee) == fee + SumSeq([i \in DOMAIN txouts |-> txouts[i].value])

Selected(order, target) == SubSeq(order, 1, CoinsTaken(order, 1, 0, target))

ValueOf(coins) == SumSeq([i \in DOMAIN coins |-> UtxoValue(coins[i])])

\* C16: when the outputs createTx selects sum to more than the requested
\* outputs plus the fee, createTx succeeds and returns a transaction that pays
\* the surplus to a fresh script issued from the change bin of the account.
C16_SurplusPaidToChange ==
    \A q \in Requests : \A order \in Orders(Utxos(db, AccountA.name)) :
        LET r == createTx_unwrapped(db, mapChainCodeUnlock, AccountA.name, q, 0, order)
            o == createTx(db, mapChainCodeUnlock, mapPrivateKeyUnlock,
                          AccountA.name, q, 0, order, FALSE) IN
        ValueOf(Selected(order, Requested(q, 0))) > Requested(q, 0) =>
            /\ o.err = None /\ o.ret # None
            /\ \E s \in r.db.scripts :
                  /\ s.account = AccountA.name /\ isChange(s.bin)
                  /\ s \notin db.scripts

\* C17: for every shuffle, createTx fails with AccountInsufficientFunds if
\* and only if the UNSPENT outputs of the account are worth less than the
\* requested outputs plus the fee; otherwise it returns a transaction whose
\* inputs are distinct UNSPENT outputs of the account, worth at least the
\* target, and worth less than the target without the last of them.
C17_GreedySelection ==
    \A q \in Requests : \A order \in Orders(Utxos(db, AccountA.name)) :
        LET o == createTx(db, mapChainCodeUnlock, mapPrivateKeyUnlock,
                          AccountA.name, q, 0, order, FALSE)
            target == Requested(q, 0)
            coins == Selected(order, target) IN
        /\ (o.err = "AccountInsufficientFunds") <=> (ValueOf(order) < target)
        /\ ValueOf(order) >= target =>
              /\ o.err = None /\ o.ret # None
              /\ \A i \in DOMAIN coins : coins[i] \in Utxos(db, AccountA.name)
              /\ \A i, j \in DOMAIN coins : coins[i] = coins[j] => i = j
              /\ ValueOf(coins) >= target
              /\ ValueOf(SubSeq(coins, 1, Len(coins) - 1)) < target
              /\ o.ret \in TxIds =>
                    /\ Len(Ins(o.ret)) = Len(coins)
                    /\ \A i \in DOMAIN coins :
                          /\ Ins(o.ret)[i].outuid = coins[i][1]
                          /\ Ins(o.ret)[i].outindex = coins[i][2] - 1

\* the raw transaction: the inputs with their scripts in order and the
\* outputs in order
Raw(uid, sigs) ==
    [ins |-> [i \in 1..Len(Ins(uid)) |->
                 [outhash |-> OutHash(Ins(uid)[i]), outindex |-> Ins(uid)[i].outindex,
                  script |-> <<Ins(uid)[i].script, sigs[i]>>]],
     outs |-> Outs(uid)]

\* C29: after createTx(..., insert = true) has returned a transaction T,
\* getTx(T.unsigned_hash) returns a stored transaction whose raw
\* serialization is that of T.
C29_CreatedTxIsStored ==
    \A q \in Requests : \A order \in Orders(Utxos(db, AccountA.name)) :
        LET o == createTx(db, mapChainCodeUnlock, mapPrivateKeyUnlock,
                          AccountA.name, q, 0, order, TRUE) IN
        (o.err = None /\ o.ret \in TxIds) =>
            LET g == getTx(o.db, o.cc, o.pk, UnsignedHash(o.ret, NoSigs(o.ret))) IN
            /\ g.err = None
            /\ g.ret \in o.db.txs
            /\ Raw(g.ret.uid, g.ret.sigs) = Raw(o.ret, NoSigs(o.ret))

\* createTx has stored the unsigned transaction that spends the payment T0
C29_Witness ==
    /\ \E r \in db.txs : r.uid = "T2" /\ r.sigs = NoSigs("T2") /\ r.status = "UNSIGNED"
    /\ \E r \in db.txs : r.uid = "T0" /\ r.spent[1] = TxInId("T2", 0)
    /\ getTx(db, mapChainCodeUnlock, mapPrivateKeyUnlock, UnsignedHash("T2", NoSigs("T2"))).err = None

\* the copies handed to insertTx that lack a signature, so that
\* Tx::updateStatus makes them UNSIGNED whatever status the caller gave them
UnsignedCopies(uid) ==
    {tx \in TxInputs : tx.uid = uid /\ missingSigCount(uid, tx.sigs) > 0}

\* C33: when insertTx receives an UNSIGNED transaction whose unsigned hash is
\* that of a stored UNSIGNED transaction, every stored input afterwards
\* carries its previous signatures together with the incoming ones; the
\* stored transaction is returned if a signature was added, and otherwise
\* nothing is returned and the store is unchanged.
C33_UnsignedCopiesMerge ==
    \A r \in {x \in db.txs : x.status = "UNSIGNED"} : \A tx \in UnsignedCopies(r.uid) :
        LET o == insertTx(db, mapChainCodeUnlock, mapPrivateKeyUnlock, tx)
            added == \E i \in DOMAIN r.sigs : ~(tx.sigs[i] \subseteq r.sigs[i]) IN
        /\ o.err = None
        /\ added =>
              /\ o.ret = r.uid
              /\ \E t \in o.db.txs :
                    /\ t.uid = r.uid
                    /\ \A i \in DOMAIN r.sigs : t.sigs[i] = r.sigs[i] \cup tx.sigs[i]
                    /\ o.db = ReplaceTx(db, r, [r EXCEPT !.sigs = t.sigs])
        /\ ~added => o.ret = None /\ o.db = db

\* two copies of T1, each signed by one of the two keychains, have been
\* merged: the stored T1 is still UNSIGNED and carries both signatures
C33_Witness ==
    \E r \in db.txs : r.uid = "T1" /\ r.status = "UNSIGNED" /\ r.sigs[1] = SignersA

\* the copies of a stored transaction that insertTx may be handed, with the
\* statuses a caller may give them
Copies(uid) ==
    {[uid |-> uid, sigs |-> sg, status |-> st] :
        sg \in SigChoices(uid), st \in {"UNSENT", "SENT", "CONFIRMED"}}

\* the status of an incoming copy after Tx::updateStatus()
IncomingStatus(tx) == IF missingSigCount(tx.uid, tx.sigs) > 0 THEN "UNSIGNED" ELSE tx.status

\* C34: a stored transaction that is not UNSIGNED keeps its status when a
\* copy with the same unsigned hash is inserted, unless the incoming status
\* is strictly higher, in which case the stored status becomes the incoming
\* one; an incoming UNSIGNED copy changes neither the stored transaction nor
\* its input scripts, and nothing else in the store changes either way.
C34_StatusNeverLowered ==
    \A r \in {x \in db.txs : x.status # "UNSIGNED"} : \A tx \in Copies(r.uid) :
        LET o == insertTx(db, mapChainCodeUnlock, mapPrivateKeyUnlock, tx)
            higher == /\ IncomingStatus(tx) # "UNSIGNED"
                      /\ TxStatusRank[IncomingStatus(tx)] > TxStatusRank[r.status] IN
        /\ o.err = None
        /\ higher => /\ o.ret = r.uid
                     /\ o.db = ReplaceTx(db, r, [r EXCEPT !.status = IncomingStatus(tx)])
        /\ ~higher => o.ret = None /\ o.db = db

\* the spend T1 is stored signed and UNSENT and the payment T0 is stored
\* CONFIRMED: a CONFIRMED copy of T1 would promote it, and neither an UNSENT
\* copy of T0 nor an unsigned copy of T1 would change anything
C34_Witness ==
    /\ \E r \in db.txs : r.uid = "T1" /\ r.status = "UNSENT" /\ r.sigs = FullSigs("T1")
    /\ \E r \in db.txs : r.uid = "T0" /\ r.status = "CONFIRMED"
    /\ insertTx(db, mapChainCodeUnlock, mapPrivateKeyUnlock,
                [uid |-> "T1", sigs |-> FullSigs("T1"), status |-> "CONFIRMED"]).ret = "T1"
    /\ insertTx(db, mapChainCodeUnlock, mapPrivateKeyUnlock,
                [uid |-> "T0", sigs |-> FullSigs("T0"), status |-> "UNSENT"]).ret = None
    /\ insertTx(db, mapChainCodeUnlock, mapPrivateKeyUnlock,
                [uid |-> "T1", sigs |-> NoSigs("T1"), status |-> "CONFIRMED"]).db = db

\* every copy of the transactions offered to the engine and of T4, which
\* spends an output of T0 that pays a foreign script
AllCopies == {tx \in UNION {Copies(u) : u \in EngineTxs \cup {"T4"}} : tx.status \in InStatuses}

\* C38: whenever insertTx returns nothing the persisted store is unchanged:
\* no row is added, no stored transaction changes status, no spent link
\* changes and no pool is refilled.  It returns nothing for a new transaction
\* that neither spends a stored output paying a signing script of the vault
\* nor pays such a script, and for a duplicate that adds nothing.
C38_NothingReturnedNothingChanged ==
    /\ \A tx \in AllCopies :
          LET o == insertTx(db, mapChainCodeUnlock, mapPrivateKeyUnlock, tx) IN
          /\ o.ret = None => o.db = db
          /\ \A r \in DuplicatesOf(db, tx) :
                (/\ IncomingStatus(tx) = r.status
                 /\ \A i \in DOMAIN r.sigs : tx.sigs[i] \subseteq r.sigs[i]) => o.ret = None
    /\ \A u \in {x \in EngineTxs \cup {"T4"} : TxRows(db, x) = {} /\ ~Concerns(db, x)} :
          \A tx \in {x \in Copies(u) : x.sigs = FullSigs(u)} :
              LET o == insertTx(db, mapChainCodeUnlock, mapPrivateKeyUnlock, tx) IN
              o.err = None => o.ret = None

\* T0 is stored and T1 is stored with the signature of the first signer
\* only: insertTx returns nothing for T6, which does not concern the vault,
\* for T4, which spends the output of T0 that pays a foreign script and pays
\* a script the vault has not derived, and for a copy of T1 that carries the
\* signature it has
C38_Witness ==
    /\ \E r \in db.txs : r.uid = "T0"
    /\ \E r \in db.txs : r.uid = "T1" /\ r.status = "UNSIGNED" /\ r.sigs = << {KeychainHash("e1")} >>
    /\ ~\E s \in db.scripts : s.txoutscript = DefaultScript(1)
    /\ \A tx \in {[uid |-> "T6", sigs |-> FullSigs("T6"), status |-> "UNSENT"],
                  [uid |-> "T4", sigs |-> FullSigs("T4"), status |-> "CONFIRMED"],
                  [uid |-> "T1", sigs |-> << {KeychainHash("e1")} >>, status |-> "UNSENT"]} :
          insertTx(db, mapChainCodeUnlock, mapPrivateKeyUnlock, tx).ret = None

-----------------------------------------------------------------------------
(* Signing: the vault holds the account and the payment T0 it received *)

SignSetUp ==
    Chain(AccountSetUp,
          << Call("insertTx", << [uid |-> "T0", sigs |-> FullSigs("T0"), status |-> "SENT"] >>) >>)

InitSign ==
    /\ db = SignSetUp.db
    /\ mapChainCodeUnlock = SignSetUp.cc
    /\ mapPrivateKeyUnlock = EmptyMap
    /\ mutex = NoThread
    /\ pc = [t \in Threads |-> "idle"]
    /\ call = [t \in Threads |-> NoCall]
    /\ tview = [t \in Threads |-> EmptyDb]
    /\ hist = << >>

\* the spends of T0 that are handed to the vault without signatures
SignTxs == {"T1", "T2"}

NextSign ==
    \/ \E n \in KeychainNames : \E key \in {EmptyKey, BadKey} : UnlockKeychainPrivateKey(n, key)
    \/ \E n \in KeychainNames : LockKeychainPrivateKey(n)
    \/ LockAllKeychainPrivateKeys
    \/ \E n \in KeychainNames : UnlockKeychainChainCode(n, GoodKey)
    \/ \E n \in KeychainNames : LockKeychainChainCode(n)
    \/ \E u \in SignTxs : InsertTx(u, NoSigs(u), "UNSENT")
    \/ \E u \in SignTxs \cup {"T0"} : \E upd \in BOOLEAN : SignTx(u, upd)
    \/ \E u \in SignTxs : DeleteTx(u)

SpecSign == InitSign /\ [][NextSign]_vars

\* the signers whose private key and chain code unlock with the cached keys
AbleSigners ==
    {k.hash : k \in {x \in db.keychains :
        /\ x.private
        /\ x.name \in DOMAIN mapPrivateKeyUnlock
        /\ unlockPrivateKey(x, mapPrivateKeyUnlock[x.name])
        /\ x.name \in DOMAIN mapChainCodeUnlock
        /\ unlockChainCode(x, mapChainCodeUnlock[x.name])}}

Unsigned(uid, sigs) == \E i \in 1..Len(Ins(uid)) : Cardinality(sigs[i]) < Ins(uid)[i].need

\* C18: signTx(update = true) on a stored UNSIGNED tx adds the signature of
\* every missing signer whose keychain is unlocked; the status stays UNSIGNED
\* while an input has fewer than m signatures and becomes UNSENT with the
\* call that completes them; the unsigned hash stays the same and names one
\* stored row throughout.
C18_SigningCompletes ==
    \A r \in {x \in db.txs : x.status = "UNSIGNED"} :
        LET o == signTx(db, mapChainCodeUnlock, mapPrivateKeyUnlock, r.uid, TRUE)
            sigs == [i \in 1..Len(Ins(r.uid)) |->
                        r.sigs[i] \cup (Ins(r.uid)[i].signers \cap AbleSigners)] IN
        /\ o.err = None
        /\ o.ret = (sigs # r.sigs)
        /\ Cardinality(TxRows(o.db, UnsignedHash(r.uid, r.sigs))) = 1
        /\ \A n \in TxRows(o.db, UnsignedHash(r.uid, r.sigs)) :
              /\ n.sigs = sigs
              /\ UnsignedHash(n.uid, n.sigs) = UnsignedHash(r.uid, r.sigs)
              /\ o.ret => /\ RowHash(n) # RowHash(r)
                          /\ n.status = IF Unsigned(n.uid, n.sigs) THEN "UNSIGNED" ELSE "UNSENT"

\* the first signer has signed and the tx is still UNSIGNED; the second
\* signer is unlocked as well now
C18_Witness ==
    \E r \in db.txs :
        /\ r.uid = "T1" /\ r.status = "UNSIGNED"
        /\ r.sigs = << {KeychainHash("e1")} >>
        /\ AbleSigners = SignersA

\* C19: once a stored tx carries all required signatures on every input,
\* signTx returns false and leaves the store as it is, whatever keychains
\* are unlocked.
C19_ResigningIsNoOp ==
    \A r \in {x \in db.txs : ~Unsigned(x.uid, x.sigs)} : \A upd \in BOOLEAN :
        LET o == signTx(db, mapChainCodeUnlock, mapPrivateKeyUnlock, r.uid, upd) IN
        /\ o.ret = FALSE
        /\ o.err = None
        /\ o.db = db

\* a tx was signed to completion and both signers are still unlocked
C19_Witness ==
    \E r \in db.txs :
        /\ r.uid = "T1" /\ r.status = "UNSENT"
        /\ r.sigs = FullSigs("T1")
        /\ AbleSigners = SignersA

\* the stored keychains that own the key with the given hash
RootKeychains(d, h) == {k \in d.keychains : k.hash = h}

\* the outcomes of the two calls that empty an unlock map
LockedAll ==
    {lockAllKeychainChainCodes(db, mapChainCodeUnlock, mapPrivateKeyUnlock),
     lockAllKeychainPrivateKeys(db, mapChainCodeUnlock, mapPrivateKeyUnlock)}

\* C35: signTx adds a signature for a key only if the name of the key's root
\* keychain has an entry in both unlock maps when it is called; after
\* lockAllKeychainChainCodes or lockAllKeychainPrivateKeys, signTx on a
\* transaction that still lacks signatures adds none, returns false and
\* leaves the stored transaction unchanged.
C35_SignsOnlyWhenBothUnlocked ==
    \A r \in db.txs : \A upd \in BOOLEAN :
        /\ LET o == signTx_body(db, mapChainCodeUnlock, mapPrivateKeyUnlock, r.uid) IN
           \A n \in TxRows(o.db, r.uid) : \A i \in DOMAIN n.sigs :
               \A h \in n.sigs[i] \ r.sigs[i] : \A k \in RootKeychains(db, h) :
                   /\ k.name \in DOMAIN mapPrivateKeyUnlock
                   /\ k.name \in DOMAIN mapChainCodeUnlock
        /\ \A l \in LockedAll :
               LET o == signTx(l.db, l.cc, l.pk, r.uid, upd) IN
               Unsigned(r.uid, r.sigs) =>
                   /\ o.ret = FALSE
                   /\ o.err = None
                   /\ o.db = db

\* the first signer signed T1 while both of its keys were cached; the chain
\* codes have been locked since, and the second signer, whose private key is
\* cached, cannot sign
C35_Witness ==
    /\ mapChainCodeUnlock = EmptyMap
    /\ DOMAIN mapPrivateKeyUnlock = KeychainNames
    /\ \E r \in db.txs :
          /\ r.uid = "T1" /\ r.status = "UNSIGNED"
          /\ r.sigs = << {KeychainHash("e1")} >>
          /\ signTx(db, mapChainCodeUnlock, mapPrivateKeyUnlock, r.uid, TRUE).ret = FALSE

-----------------------------------------------------------------------------
(* Transactions that arrive out of order: the account has issued two scripts *)

OrderSetUp ==
    Chain(AccountSetUp,
          << Call("issueSigningScript", <<AccountA.name, DEFAULT_BIN_NAME, "first">>),
             Call("issueSigningScript", <<AccountA.name, DEFAULT_BIN_NAME, "second">>) >>)

InitOrder ==
    /\ db = OrderSetUp.db
    /\ mapChainCodeUnlock = OrderSetUp.cc
    /\ mapPrivateKeyUnlock = EmptyMap
    /\ mutex = NoThread
    /\ pc = [t \in Threads |-> "idle"]
    /\ call = [t \in Threads |-> NoCall]
    /\ tview = [t \in Threads |-> EmptyDb]
    /\ hist = << >>

\* the payment T0, two spends of its first output and a spend of its second
\* output, which pays a script that is not in the vault
OrderTxs == {"T0", "T1", "T2", "T4"}

OrderInputs ==
    {[uid |-> x[1], sigs |-> x[2], status |-> "UNSENT"] :
        x \in UNION {{<<u, s>> : s \in SigChoices(u)} : u \in OrderTxs}}

NextOrder ==
    \/ \E tx \in OrderInputs : InsertTx(tx.uid, tx.sigs, tx.status)
    \/ \E u \in OrderTxs : DeleteTx(u)
    \/ LockAllKeychainChainCodes
    \/ \E n \in KeychainNames : UnlockKeychainChainCode(n, GoodKey)

SpecOrder == InitOrder /\ [][NextOrder]_vars

\* the stored inputs that refer to the k-th output of the incoming tx
ChildInputs(d, tx, k) ==
    {TxInId(c[1].uid, c[2] - 1) :
        c \in {x \in d.txs \X (1..2) :
                 /\ x[2] <= Len(Ins(x[1].uid))
                 /\ OutHash(Ins(x[1].uid)[x[2]]) = TxHash(tx.uid, tx.sigs)
                 /\ Ins(x[1].uid)[x[2]].outindex = k - 1}}

ParentInserted(tx, o) ==
    /\ \A r \in db.txs : r.uid # tx.uid
    /\ o.err = None /\ o.ret # None

Outpoints(d, in) ==
    {r \in d.txs : RowHash(r) = OutHash(in) /\ in.outindex < Len(Outs(r.uid))}

HaveAllOutpoints(d, uid) == \A i \in 1..Len(Ins(uid)) : Outpoints(d, Ins(uid)[i]) # {}

\* the value of the outpoints of the inputs and of the outputs, as integers
InputTotal(d, uid) ==
    SumSeq([i \in 1..Len(Ins(uid)) |->
               Outs((CHOOSE r \in Outpoints(d, Ins(uid)[i]) : TRUE).uid)[Ins(uid)[i].outindex + 1].value])

OutputTotal(uid) == SumSeq([j \in 1..Len(Outs(uid)) |-> Outs(uid)[j].value])

\* C39: whenever insertTx persists a transaction all of whose outpoints are
\* stored, the recorded fee is the total of the inputs less the total of the
\* outputs and does not exceed the total of the inputs; a transaction whose
\* outputs are worth more than its inputs never gets a fee that wrapped
\* around.
C39_FeeIsInputsLessOutputs ==
    \A tx \in UNION {Copies(u) : u \in OrderTxs} :
        LET o == insertTx(db, mapChainCodeUnlock, mapPrivateKeyUnlock, tx) IN
        (DuplicatesOf(db, tx) = {} /\ o.ret # None /\ HaveAllOutpoints(db, tx.uid)) =>
            \A r \in TxRows(o.db, tx.uid) :
                /\ r.fee = InputTotal(db, tx.uid) - OutputTotal(tx.uid)
                /\ r.fee <= InputTotal(db, tx.uid)

-----------------------------------------------------------------------------
(* Properties of the block chain operations, checked under SpecChain *)

\* C5: a write operation that succeeds commits its transaction before it
\* returns, so that later operations see its effects: after insertMerkleBlock
\* has returned true for a block at height h, getBestHeight returns at least h.
C5_AcceptedBlockVisible ==
    \A b \in BlockIds :
        LET o == insertMerkleBlock(db, mapChainCodeUnlock, mapPrivateKeyUnlock, b) IN
        o.ret = TRUE => getBestHeight(o.db, o.cc, o.pk).ret >= BlockCat[b].height

\* C8: when insertMerkleBlock accepts a block at height H while a stored
\* header has height >= H, afterwards the only stored header with height >= H
\* is the new one, no merkle block of an erased header is left and no
\* transaction refers to an erased header.
C8_ReorgKeepsNewHeaderOnly ==
    \A b \in BlockIds :
        LET o == insertMerkleBlock(db, mapChainCodeUnlock, mapPrivateKeyUnlock, b) IN
        (o.ret = TRUE /\ \E h \in db.headers : h.height >= BlockCat[b].height) =>
            /\ \E h \in o.db.headers : h.hash = b
            /\ \A h \in o.db.headers : h.height >= BlockCat[b].height => h.hash = b
            /\ \A m \in o.db.mblocks : \E h \in o.db.headers : h.hash = m.header
            /\ \A r \in o.db.txs :
                  r.blockheader # None => \E h \in o.db.headers : h.hash = r.blockheader

\* the predecessor of the block is not stored and the block is newer than
\* the horizon of the vault allows
Orphan(d, b) ==
    /\ \A h \in d.headers : h.hash # BlockCat[b].prevhash
    /\ BlockCat[b].timestamp + TIME_HORIZON_WINDOW > getHorizonTimestamp_unwrapped(d)

Duplicate(d, b) == \E h \in d.headers : h.hash = b

\* C27: insertMerkleBlock returns false and leaves the store unchanged, in
\* the view of its transaction too (no header or merkle block added, no
\* reorganization, no link of a transaction changed), when the predecessor
\* header is not stored and timestamp + TIME_HORIZON_WINDOW > horizon
\* timestamp, and also when a header with the same hash is stored.
C27_RefusedBlockChangesNothing ==
    \A b \in BlockIds :
        LET r == insertMerkleBlock_unwrapped(db, mapChainCodeUnlock, b)
            o == insertMerkleBlock(db, mapChainCodeUnlock, mapPrivateKeyUnlock, b) IN
        (Orphan(db, b) \/ Duplicate(db, b)) =>
            /\ r.ret = FALSE /\ r.err = None /\ r.db = db
            /\ o.ret = FALSE /\ o.err = None /\ o.db = db

\* a block is refused as an orphan that is not stored, another block is
\* refused as a duplicate although its timestamp is within the horizon, and
\* a stored transaction is confirmed in a block that a reorganization at the
\* height of the duplicate would disconnect
C27_Witness ==
    /\ \E b \in BlockIds : Orphan(db, b) /\ ~Duplicate(db, b)
    /\ \E b \in BlockIds :
          /\ Duplicate(db, b) /\ ~Orphan(db, b)
          /\ \E r \in db.txs : r.blockheader \in SideChain(db, BlockCat[b].height)

\* the stored headers whose stored merkle block lists the transaction
ListedIn(d, r) ==
    {h.hash : h \in {x \in d.headers : \E m \in d.mblocks : m.header = x.hash /\ RowHash(r) \in m.hashes}}

Linked(d) ==
    \A r \in d.txs :
        (TxStatusRank[r.status] >= TxStatusRank["SENT"] /\ ListedIn(d, r) # {})
            => r.blockheader \in ListedIn(d, r)

\* C36: whatever the order of arrival, a stored transaction with status SENT
\* or higher whose hash a stored merkle block lists has a block header link
\* that points to a stored header whose merkle block lists it, once the
\* later of insertTx and insertMerkleBlock has completed; this holds of the
\* store and of the store that insertMerkleBlock writes, reorganizations
\* included.
C36_ListedTxIsLinked ==
    /\ Linked(db)
    /\ \A b \in BlockIds : Linked(insertMerkleBlock_unwrapped(db, mapChainCodeUnlock, b).db)

-----------------------------------------------------------------------------
(* The block chain on a vault file that holds the first block only *)

\* the vault file the constructor opens: the account of the scenarios, the
\* payment T0 and the header and merkle block b1
BlocksSetUp ==
    Let(Chain(AccountSetUp,
              << Call("insertTx", << [uid |-> "T0", sigs |-> FullSigs("T0"), status |-> "SENT"] >>) >>),
        LAMBDA o : [o EXCEPT !.db = StoredBlocks(o.db, << "b1" >>)])

InitBlocks ==
    /\ db = BlocksSetUp.db
    /\ mapChainCodeUnlock = BlocksSetUp.cc
    /\ mapPrivateKeyUnlock = EmptyMap
    /\ mutex = NoThread
    /\ pc = [t \in Threads |-> "idle"]
    /\ call = [t \in Threads |-> NoCall]
    /\ tview = [t \in Threads |-> EmptyDb]
    /\ hist = << >>

SpecBlocks == InitBlocks /\ [][NextChain]_vars

Heights(d) == {h.height : h \in d.headers}

\* the heights are pairwise distinct and none between the lowest and the
\* highest is missing
GapFree(d) ==
    /\ \A g, h \in d.headers : g.height = h.height => g = h
    /\ \A i \in 0..UINT32_MAX :
          (\E g, h \in d.headers : g.height < i /\ i < h.height) => i \in Heights(d)

-----------------------------------------------------------------------------
(* Properties of the persistence transactions, checked under Spec *)

\* the public calls a caller can make on the store
PublicCalls(d) ==
    {Call("newKeychain", <<n, EntropyOf[n], GoodKey>>) : n \in KeychainNames}
    \cup {Call("renameKeychain", <<x[1], x[2]>>) : x \in KeychainNames \X KeychainNames}
    \cup {Call("unlockKeychainChainCode", <<x[1], x[2]>>) : x \in KeychainNames \X KeyChoices}
    \cup {Call("unlockKeychainPrivateKey", <<x[1], x[2]>>) : x \in KeychainNames \X {EmptyKey, BadKey}}
    \cup {Call("lockKeychainChainCode", <<n>>) : n \in KeychainNames}
    \cup {Call("lockKeychainPrivateKey", <<n>>) : n \in KeychainNames}
    \cup {Call("lockAllKeychainChainCodes", << >>), Call("lockAllKeychainPrivateKeys", << >>)}
    \cup {Call("newAccount", <<AccountA.name, AccountA.minsigs, AccountA.keychain_names, p>>) :
              p \in 1..PoolSize}
    \cup UNION {{Call("importAccount", <<AccountFiles[f], x[1], x[2], x[3], x[4]>>) :
                    x \in Orders(AccountFiles[f].keychains) \X KeyChoices \X BOOLEAN \X BOOLEAN} :
                f \in FileIds}
    \cup {Call("issueSigningScript", <<x[1], x[2], "pay">>) :
              x \in {AccountA.name, "B"} \X {DEFAULT_BIN_NAME, CHANGE_BIN_NAME, "savings"}}
    \cup UNION {{Call("insertTx", << [uid |-> u, sigs |-> x[1], status |-> x[2]] >>) :
                    x \in SigChoices(u) \X InStatuses} : u \in TxIds}
    \cup {Call("createTx", <<x[1], x[2], 0, x[3], x[4]>>) :
              x \in {AccountA.name, "B"} \X Requests \X Orders(Utxos(d, AccountA.name)) \X BOOLEAN}
    \cup {Call("deleteTx", <<u>>) : u \in TxIds}
    \cup {Call("signTx", <<x[1], x[2]>>) : x \in TxIds \X BOOLEAN}
    \cup {Call("insertMerkleBlock", <<b>>) : b \in BlockIds}
    \cup {Call("getBestHeight", << >>)}

\* C6: a public operation that ends with an error leaves the persisted store
\* exactly as it was before the operation started, also when rows had been
\* written or updated inside its transaction before the error was raised.
C6_FailedCallLeavesStore ==
    \A c \in PublicCalls(db) :
        LET o == Run(c, db, mapChainCodeUnlock, mapPrivateKeyUnlock) IN
        o.err # None => o.db = db

\* an operation is about to fail after it has written rows: an account import
\* that persists or updates a keychain and then fails on a later one
C6_Witness ==
    \E f \in FileIds : \E order \in Orders(AccountFiles[f].keychains) :
    \E key \in KeyChoices : \E rekeys_locked \in BOOLEAN :
        LET r == importAccount_unwrapped(db, mapChainCodeUnlock, AccountFiles[f], order,
                                         key, TRUE, rekeys_locked) IN
        /\ db.keychains # {}
        /\ r.err # None
        /\ r.db # db

-----------------------------------------------------------------------------
(* The keychain store and the unlock maps, from the empty vault on *)

\* the keychain archives handed to importKeychain: a private keychain, the
\* same keychain without its private key, and two other keychains that were
\* given the same name
KeychainBlobs ==
    {Archive(NewKeychainRow("k1", "e1", GoodKey)),
     Archive(clearPrivateKey(NewKeychainRow("k1", "e1", GoodKey))),
     Archive(NewKeychainRow("k1", "e2", BadKey)),
     Archive(NewKeychainRow("k1", "e3", GoodKey))}

\* the names the callers use for stored keychains
CallerNames == KeychainNames \cup {"k11"}

\* room for one more keychain in the store
KeychainRoom == Cardinality(db.keychains) < MaxKeychains

NextKeys ==
    \/ \E n \in KeychainNames : \E key \in KeyChoices :
          KeychainRoom /\ NewKeychain(n, EntropyOf[n], key)
    \/ \E old \in CallerNames : \E new \in KeychainNames : RenameKeychain(old, new)
    \/ \E blob \in KeychainBlobs : \E importprivkeys \in BOOLEAN :
          KeychainRoom /\ ImportKeychainBlob(blob, importprivkeys)
    \/ \E n \in KeychainNames : \E exportprivkeys \in BOOLEAN : ExportKeychain(n, exportprivkeys)
    \/ \E n \in CallerNames : \E key \in KeyChoices : UnlockKeychainChainCode(n, key)
    \/ \E n \in CallerNames : LockKeychainChainCode(n)
    \/ LockAllKeychainChainCodes
    \/ \E n \in KeychainNames : \E key \in {EmptyKey, BadKey} : UnlockKeychainPrivateKey(n, key)
    \/ \E n \in KeychainNames : LockKeychainPrivateKey(n)
    \/ LockAllKeychainPrivateKeys
    \/ \E p \in 1..PoolSize :
          NewAccount(AccountA.name, AccountA.minsigs, AccountA.keychain_names, p)
    \/ \E rekeys_locked \in BOOLEAN :
          KeychainRoom /\ ImportAccount("F2", GoodKey, TRUE, rekeys_locked)

SpecKeys == Init /\ [][NextKeys]_vars

\* the public calls on keychain archives, bins and pools, and the keychains
\* created with either lock key
KeyCalls(d) ==
    {Call("newKeychain", <<x[1], EntropyOf[x[1]], x[2]>>) : x \in KeychainNames \X KeyChoices}
    \cup {Call("exportKeychain", <<x[1], x[2]>>) : x \in CallerNames \X BOOLEAN}
    \cup {Call("importKeychain", <<x[1], x[2]>>) : x \in KeychainBlobs \X BOOLEAN}
    \cup {Call("addAccountBin", <<AccountA.name, b>>) : b \in {DEFAULT_BIN_NAME, "savings"}}
    \cup {Call("refillAccountPool", <<a>>) : a \in {AccountA.name, "B"}}

\* C21: a public operation that ends with an error leaves both unlock maps,
\* the chain code map and the private key map, exactly as they were before
\* the operation; a failure with AccountChainCodeLocked in particular removes
\* no cached entry.
C21_FailedCallLeavesUnlockMaps ==
    \A c \in PublicCalls(db) \cup KeyCalls(db) :
        LET o == Run(c, db, mapChainCodeUnlock, mapPrivateKeyUnlock) IN
        o.err # None => /\ o.cc = mapChainCodeUnlock
                        /\ o.pk = mapPrivateKeyUnlock

\* C22: unlocking the chain code or the private key of a stored keychain
\* with a key that does not decrypt it fails with
\* KeychainChainCodeUnlockFailed or KeychainPrivateKeyUnlockFailed, and the
\* key is not cached in the unlock map.
C22_WrongKeyFailsUncached ==
    \A k \in db.keychains : \A key \in KeyChoices \cup {EmptyKey} :
        /\ ~unlockChainCode(k, key) =>
              LET o == unlockKeychainChainCode(db, mapChainCodeUnlock, mapPrivateKeyUnlock,
                                               k.name, key) IN
              /\ o.err = "KeychainChainCodeUnlockFailed"
              /\ o.cc = mapChainCodeUnlock
        /\ ~unlockPrivateKey(k, key) =>
              LET o == unlockKeychainPrivateKey(db, mapChainCodeUnlock, mapPrivateKeyUnlock,
                                                k.name, key) IN
              /\ o.err = "KeychainPrivateKeyUnlockFailed"
              /\ o.pk = mapPrivateKeyUnlock

\* the map m without its entry for name n, every other entry as it was
Without(m, n, o) ==
    /\ DOMAIN o = (DOMAIN m) \ {n}
    /\ \A x \in DOMAIN o : o[x] = m[x]

\* C23: locking one keychain's chain code (or private key) removes only that
\* name's entry from that one unlock map and leaves every other entry, the
\* other unlock map and the persisted store unchanged; locking all of one
\* kind empties that map and leaves the other map and the store unchanged.
C23_LockFrame ==
    /\ \A n \in CallerNames :
          LET c == lockKeychainChainCode(db, mapChainCodeUnlock, mapPrivateKeyUnlock, n)
              p == lockKeychainPrivateKey(db, mapChainCodeUnlock, mapPrivateKeyUnlock, n) IN
          /\ c.err = None /\ c.db = db /\ c.pk = mapPrivateKeyUnlock
          /\ Without(mapChainCodeUnlock, n, c.cc)
          /\ p.err = None /\ p.db = db /\ p.cc = mapChainCodeUnlock
          /\ Without(mapPrivateKeyUnlock, n, p.pk)
    /\ LET c == lockAllKeychainChainCodes(db, mapChainCodeUnlock, mapPrivateKeyUnlock)
           p == lockAllKeychainPrivateKeys(db, mapChainCodeUnlock, mapPrivateKeyUnlock) IN
       /\ c.err = None /\ c.db = db /\ c.pk = mapPrivateKeyUnlock /\ DOMAIN c.cc = {}
       /\ p.err = None /\ p.db = db /\ p.cc = mapChainCodeUnlock /\ DOMAIN p.pk = {}

\* both maps hold the keys of two keychains, so that a lock of one of them
\* has entries to remove and entries to leave
C23_Witness ==
    /\ Cardinality(DOMAIN mapChainCodeUnlock) >= 2
    /\ Cardinality(DOMAIN mapPrivateKeyUnlock) >= 2
    /\ db.keychains # {}
    /\ \E n \in CallerNames :
          /\ lockKeychainChainCode(db, mapChainCodeUnlock, mapPrivateKeyUnlock, n).cc
                 \notin {mapChainCodeUnlock, EmptyMap}
          /\ lockKeychainPrivateKey(db, mapChainCodeUnlock, mapPrivateKeyUnlock, n).pk
                 \notin {mapPrivateKeyUnlock, EmptyMap}

\* C24: importing a keychain whose content hash is stored creates no second
\* row: when the archive is private, private keys are wanted and the stored
\* keychain is public, the stored keychain becomes private and is returned;
\* in every other collision the import fails with KeychainAlreadyExists and
\* the store is unchanged.
C24_ImportCollision ==
    \A blob \in KeychainBlobs : \A importprivkeys \in BOOLEAN :
        LET o == importKeychain(db, mapChainCodeUnlock, mapPrivateKeyUnlock, blob, importprivkeys)
            keychain == Unarchive(blob)
            found == {k \in db.keychains : k.hash = keychain.hash} IN
        found # {} =>
            /\ Cardinality(o.db.keychains) = Cardinality(db.keychains)
            /\ \E stored \in found :
                  IF keychain.private /\ importprivkeys /\ ~stored.private
                  THEN /\ o.err = None
                       /\ o.ret = [stored EXCEPT !.private = TRUE, !.pkkey = keychain.pkkey]
                       /\ o.db = [db EXCEPT !.keychains = (@ \ {stored}) \cup {o.ret}]
                  ELSE /\ o.err = "KeychainAlreadyExists"
                       /\ o.db = db

\* a public keychain is stored and the private archive of the same keychain
\* is about to be imported with its private keys
C24_Witness ==
    \E blob \in KeychainBlobs : \E stored \in db.keychains :
        /\ stored.hash = Unarchive(blob).hash
        /\ Unarchive(blob).private /\ ~stored.private
        /\ importKeychain(db, mapChainCodeUnlock, mapPrivateKeyUnlock, blob, TRUE).db # db

StoredNames(d) == {k.name : k \in d.keychains}

\* the name followed by the smallest k in 1, 2, ... that makes it unique
SmallestSuffixed(name, taken) ==
    LET k == CHOOSE i \in 1..(Cardinality(taken) + 1) :
                 /\ (name \o ToString(i)) \notin taken
                 /\ \A j \in 1..(i - 1) : (name \o ToString(j)) \in taken IN
    name \o ToString(k)

ExpectedName(name, taken) == IF name \in taken THEN SmallestSuffixed(name, taken) ELSE name

\* C25: no two stored keychains have the same name; newKeychain and a rename
\* to the name of another keychain fail with KeychainAlreadyExists, and an
\* import of a keychain or of an account stores a keychain whose name is
\* taken under that name followed by the smallest k in 1, 2, ... that makes
\* it unique.
C25_UniqueKeychainNames ==
    /\ \A a, b \in db.keychains : a.name = b.name => a = b
    /\ \A n \in StoredNames(db) : \A key \in KeyChoices :
          LET o == newKeychain(db, mapChainCodeUnlock, mapPrivateKeyUnlock,
                               n, "e3", key) IN
          o.err = "KeychainAlreadyExists" /\ o.db = db
    /\ \A old, new \in StoredNames(db) :
          LET o == renameKeychain(db, mapChainCodeUnlock, mapPrivateKeyUnlock, old, new) IN
          old # new => o.err = "KeychainAlreadyExists" /\ o.db = db
    /\ \A blob \in KeychainBlobs : \A importprivkeys \in BOOLEAN :
          LET o == importKeychain(db, mapChainCodeUnlock, mapPrivateKeyUnlock, blob, importprivkeys)
              keychain == Unarchive(blob) IN
          (\A k \in db.keychains : k.hash # keychain.hash) =>
              /\ o.err = None
              /\ db.keychains \subseteq o.db.keychains
              /\ \E k \in o.db.keychains \ db.keychains :
                    /\ o.db.keychains = db.keychains \cup {k}
                    /\ k.hash = keychain.hash
                    /\ k.name = ExpectedName(keychain.name, StoredNames(db))
    /\ \A f \in FileIds : \A order \in Orders(AccountFiles[f].keychains) :
       \A key \in KeyChoices :
          LET o == importAccount(db, mapChainCodeUnlock, mapPrivateKeyUnlock, AccountFiles[f],
                                 order, key, TRUE, TRUE) IN
          (o.err = None /\ Len(order) = 1) =>
              \A k \in o.db.keychains :
                  (\A x \in db.keychains : x.hash # k.hash) =>
                      k.name = ExpectedName(order[1].name, StoredNames(db))

\* three keychains of one name were imported: they are stored under the
\* name, the name followed by 1 and the name followed by 2
C25_Witness ==
    /\ StoredNames(db) = {"k1", "k11", "k12"}
    /\ \E k \in db.keychains : k.name = "k12" /\ k.hash = KeychainHash("e3")

\* the keychain that an empty vault holds after it has imported the archive
\* that exportKeychain wrote for the stored keychain k
Reimported(k, exportprivkeys, importprivkeys) ==
    LET e == exportKeychain(db, mapChainCodeUnlock, mapPrivateKeyUnlock, k.name, exportprivkeys) IN
    importKeychain(EmptyDb, EmptyMap, EmptyMap, e.ret, importprivkeys)

Exportable(k, exportprivkeys) ==
    exportKeychain(db, mapChainCodeUnlock, mapPrivateKeyUnlock, k.name, exportprivkeys).err = None

\* C30 as stated: exporting a stored keychain and importing the archive into
\* an empty vault yields a keychain with the same content hash and the same
\* isPrivate status, for every choice of the two private key flags that the
\* operations accept.
C30_ExportImportKeepsPrivate ==
    \A k \in db.keychains : \A exportprivkeys, importprivkeys \in BOOLEAN :
        Exportable(k, exportprivkeys) =>
            LET i == Reimported(k, exportprivkeys, importprivkeys) IN
            /\ i.err = None
            /\ i.db.keychains = {i.ret}
            /\ i.ret.hash = k.hash
            /\ i.ret.private = k.private

\* C30 amended: the content hash is the same for every accepted choice of the
\* flags; the isPrivate status is the same when the original is public or
\* when private keys are both exported and imported, and a private keychain
\* exported or imported without private keys yields a public keychain.
C30_ExportImportKeepsHash ==
    \A k \in db.keychains : \A exportprivkeys, importprivkeys \in BOOLEAN :
        Exportable(k, exportprivkeys) =>
            LET i == Reimported(k, exportprivkeys, importprivkeys) IN
            /\ i.err = None
            /\ i.db.keychains = {i.ret}
            /\ i.ret.hash = k.hash
            /\ i.ret.private = (k.private /\ exportprivkeys /\ importprivkeys)

\* a private and a public keychain are stored, the private one under a name
\* it was given by a rename, and both can be exported
C30_Witness ==
    \E k, l \in db.keychains :
        /\ k.private /\ ~l.private
        /\ k.name = "k2" /\ k.hash = KeychainHash("e1")
        /\ Exportable(k, TRUE) /\ Exportable(l, FALSE)
        /\ Reimported(k, TRUE, TRUE).ret.private
        /\ ~Reimported(k, FALSE, TRUE).ret.private

\* C40: after any sequence of unlock, lock, rename, newKeychain, keychain
\* import and account import calls, every entry of the two unlock maps is
\* keyed by the name of a stored keychain and holds a key that decrypts that
\* keychain, so that the unlocked state follows a keychain across a rename
\* and is never inherited by another keychain that takes the old name.
C40_UnlockMapsFollowKeychains ==
    /\ \A n \in DOMAIN mapChainCodeUnlock :
          \E k \in db.keychains : k.name = n /\ unlockChainCode(k, mapChainCodeUnlock[n])
    /\ \A n \in DOMAIN mapPrivateKeyUnlock :
          \E k \in db.keychains : k.name = n /\ unlockPrivateKey(k, mapPrivateKeyUnlock[n])

-----------------------------------------------------------------------------
(* Two accounts in one vault: A (2 of k1, k2) and B (1 of k1) *)

AccountsSetUp ==
    Chain(AccountSetUp,
          << Call("newAccount", <<AccountB.name, AccountB.minsigs, AccountB.keychain_names, PoolSize>>) >>)

InitAccounts ==
    /\ db = AccountsSetUp.db
    /\ mapChainCodeUnlock = AccountsSetUp.cc
    /\ mapPrivateKeyUnlock = EmptyMap
    /\ mutex = NoThread
    /\ pc = [t \in Threads |-> "idle"]
    /\ call = [t \in Threads |-> NoCall]
    /\ tview = [t \in Threads |-> EmptyDb]
    /\ hist = << >>

\* payments to either account and spends of them
AccountsTxs == {"T0", "T1", "T7", "T8"}

NextAccounts ==
    \/ \E u \in AccountsTxs : InsertTx(u, FullSigs(u), "UNSENT")
    \/ \E u \in AccountsTxs : DeleteTx(u)
    \/ \E a \in {AccountA.name, AccountB.name} : IssueSigningScript(a, DEFAULT_BIN_NAME, "pay")
    \/ \E n \in KeychainNames : UnlockKeychainChainCode(n, GoodKey)
    \/ LockAllKeychainChainCodes

SpecAccounts == InitAccounts /\ [][NextAccounts]_vars

\* whether an input of the transaction spends a stored output that pays a
\* signing script of the given account
SpendsFromAccount(d, uid, acct) ==
    \E i \in 1..Len(Ins(uid)) : \E r \in d.txs :
        /\ RowHash(r) = OutHash(Ins(uid)[i])
        /\ Ins(uid)[i].outindex < Len(Outs(r.uid))
        /\ \E s \in d.scripts : /\ s.account = acct
                                /\ s.txoutscript = Outs(r.uid)[Ins(uid)[i].outindex + 1].script

\* C32: a signing script gets status CHANGE only when the transaction that
\* first pays it spends an output owned by the script's own account; a
\* transaction whose vault-owned inputs all belong to another account never
\* moves a script of the change bin to CHANGE.
C32_ChangeOnlyFromOwnAccount ==
    \A tx \in NewTxs(db) :
        LET o == insertTx(db, mapChainCodeUnlock, mapPrivateKeyUnlock, tx) IN
        \A s \in db.scripts : \A t \in o.db.scripts :
            (SameScript(s, t) /\ s.status # "CHANGE" /\ t.status = "CHANGE")
                => SpendsFromAccount(db, tx.uid, s.account)

-----------------------------------------------------------------------------
(* Properties of concurrent callers, checked under SpecMutex *)

\* the outcomes of the calls made one at a time, each on what the one before left
RECURSIVE Outcomes(_, _)
Outcomes(o, calls) ==
    IF calls = << >> THEN << >>
    ELSE Let(Run(Head(calls), o.db, o.cc, o.pk), LAMBDA o1 : <<o1>> \o Outcomes(o1, Tail(calls)))

\* the calls that have returned, in the order in which they took the mutex
Completed == SelectSeq(hist, LAMBDA e : e.err # Pending)

IssuedScript(e) == e.call.op = "issueSigningScript" /\ e.err = None

\* C7: the calls run one at a time under the global mutex: the store, the
\* unlock maps and every returned result are those of running the calls one
\* after the other in the order in which they took the mutex, and two
\* issueSigningScript calls never return the same script.
C7_MutexLinearizes ==
    LET done == Completed
        outs == Outcomes(AccountSetUp, [i \in DOMAIN done |-> done[i].call])
        final == IF outs = << >> THEN AccountSetUp ELSE outs[Len(outs)] IN
    /\ Cardinality({t \in Threads : pc[t] \in {"locked", "running"}}) <= 1
    /\ db = final.db
    /\ mapChainCodeUnlock = final.cc
    /\ mapPrivateKeyUnlock = final.pk
    /\ \A i \in DOMAIN done : done[i].ret = outs[i].ret /\ done[i].err = outs[i].err
    /\ \A i, j \in DOMAIN done :
          (i # j /\ IssuedScript(done[i]) /\ IssuedScript(done[j])) => done[i].ret # done[j].ret

\* two threads have each been issued a script of the same bin, the second
\* while or after the first held the mutex
C7_Witness ==
    \E i, j \in DOMAIN hist :
        /\ i < j
        /\ hist[i].thread # hist[j].thread
        /\ IssuedScript(hist[i]) /\ IssuedScript(hist[j])
        /\ hist[i].ret # hist[j].ret

====
